---- MODULE Spec2Model ----
(***************************************************************************)
(* Model of the asynchronous library scanning engine of my-media-manager   *)
(* (backend/services/library_scanner.py): the scan registry, the           *)
(* background count/process passes, cancellation, and the duplicate        *)
(* reconciler with its online (Firestore) and offline lookup modes.        *)
(*                                                                         *)
(* Encoding of Python values:                                              *)
(*   str            a sequence of one-character strings, <<"/", "a">>      *)
(*   Optional[x]    a sequence of length <= 1: <<>> is None, <<x>> is x    *)
(*   dict           a function over its set of keys                        *)
(*   list           a sequence                                             *)
(***************************************************************************)
EXTENDS Integers, Sequences, FiniteSets, TLC

VARIABLES
  running_scans,   \* keys of LibraryScanner.running_scans (scan ids)
  progress,        \* the ScanProgress objects, by scan id (the registry's values)
  scan_callbacks,  \* keys of LibraryScanner.scan_callbacks
  task,            \* the background task _run_scan_async of each started scan
  clock,           \* time.time()
  firestore,       \* the scanner's FirestoreService: initialized flag and collections
  tree,            \* the file system under the library roots: "initial", "grown", "gone"
  ret,             \* the last call of a caller, or the get_scan_status call under way
  stopped,         \* history: the scan ids for which stop_scan has returned True
  rec,             \* reconciler harness: inputs and the two reports
  tasks,           \* AsyncTaskManager.tasks: the Task objects, by task id
  running_tasks,   \* keys of AsyncTaskManager.running_tasks (task ids)
  async_tasks      \* the asyncio task _run_task of each submitted task

\* the state of the AsyncTaskManager
manager == <<tasks, running_tasks, async_tasks>>

vars == <<running_scans, progress, scan_callbacks, task, clock, firestore, tree,
          ret, stopped, rec, manager>>

----------------------------------------------------------------------------
(* Python values *)

None == <<>>
Some(x) == <<x>>

\* {} (a dict with no key)
EmptyDict == [k \in {} |-> TRUE]
IsNone(o) == o = <<>>

\* dict.get(key, default)
Get(d, k, default) == IF k \in DOMAIN d THEN d[k] ELSE default

\* dict.get(key) as an Optional
GetOpt(d, k) == IF k \in DOMAIN d THEN Some(d[k]) ELSE None

\* The values an item dict holds under 'metadata' and 'media_type', and a
\* metadata dict under its keys, are Optionals: a key may be stored with the
\* value None, which dict.get(key) does not tell from a missing key.

\* the index of the last key of keys equal to k (a later dict store overwrites)
LastIndex(keys, k) ==
  CHOOSE i \in DOMAIN keys :
    /\ keys[i] = k
    /\ \A j \in DOMAIN keys : keys[j] = k => j <= i

\* d = {}; for i, item in enumerate(list): d[keys[i]] = item
DictOf(keys, list) ==
  [k \in {keys[i] : i \in DOMAIN keys} |-> list[LastIndex(keys, k)]]

\* "if d:" for an Optional dict: neither None nor the empty dict
Truthy(o) == ~IsNone(o) /\ DOMAIN o[1] # {}

----------------------------------------------------------------------------
(* Duplicate reconciler *)

\* str.lower() of one character
LowerChar(c) ==
    CASE c = "A" -> "a"
      [] c = "B" -> "b"
      [] c = "C" -> "c"
      [] c = "D" -> "d"
      [] c = "E" -> "e"
      [] c = "F" -> "f"
      [] c = "G" -> "g"
      [] c = "H" -> "h"
      [] c = "I" -> "i"
      [] c = "J" -> "j"
      [] c = "K" -> "k"
      [] c = "L" -> "l"
      [] c = "M" -> "m"
      [] c = "N" -> "n"
      [] c = "O" -> "o"
      [] c = "P" -> "p"
      [] c = "Q" -> "q"
      [] c = "R" -> "r"
      [] c = "S" -> "s"
      [] c = "T" -> "t"
      [] c = "U" -> "u"
      [] c = "V" -> "v"
      [] c = "W" -> "w"
      [] c = "X" -> "x"
      [] c = "Y" -> "y"
      [] c = "Z" -> "z"
      [] OTHER -> c

\* str.lower()
Lower(s) == [i \in DOMAIN s |-> LowerChar(s[i])]

\* A faulty key that folds the letter case of the path (what C11 rules out).
CaseFoldedKey(library_path, item_path) == library_path \o <<":">> \o Lower(item_path)

\* A faulty key that ignores the library root (what C6 rules out).
PathOnlyKey(library_path, item_path) == item_path

\* f"{library_path}:{item_path}"
CompositeKey(library_path, item_path) == library_path \o <<":">> \o item_path

\* key = f"{item.get('libraryPath', '')}:{item.get('path', '')}"
ExistingKey(item) == CompositeKey(Get(item, "libraryPath", <<>>), Get(item, "path", <<>>))

\* existing_file_keys / existing_dir_keys: composite key -> existing item
ExistingKeys(existing) ==
  DictOf([i \in DOMAIN existing |-> ExistingKey(existing[i])], existing)

\* new_metadata.get / existing_metadata.get raise AttributeError when the
\* item holds None under 'metadata'
CompareItemRaises(new_item, existing_item) ==
  \/ IsNone(Get(new_item, "metadata", Some(EmptyDict)))
  \/ IsNone(Get(existing_item, "metadata", Some(EmptyDict)))

\* _compare_item_data, when it does not raise: the differing fields among
\* size, modified_time, media_type
CompareItemData(new_item, existing_item) ==
  LET new_metadata == Get(new_item, "metadata", Some(EmptyDict))[1]
      existing_metadata == Get(existing_item, "metadata", Some(EmptyDict))[1]
      new_size == Get(new_metadata, "size", Some(0))
      existing_size == Get(existing_metadata, "size", Some(0))
      new_mtime == Get(new_metadata, "modified_time", None)
      existing_mtime == Get(existing_metadata, "modified_time", None)
      new_media_type == Get(new_item, "media_type", None)
      existing_media_type == Get(existing_item, "media_type", None)
  IN  (IF new_size # existing_size
       THEN <<[field |-> "size", newValue |-> new_size, existingValue |-> existing_size]>>
       ELSE <<>>)
      \o
      (IF new_mtime # existing_mtime
       THEN <<[field |-> "modified_time", newValue |-> new_mtime,
               existingValue |-> existing_mtime]>>
       ELSE <<>>)
      \o
      (IF new_media_type # existing_media_type
       THEN <<[field |-> "media_type", newValue |-> new_media_type,
               existingValue |-> existing_media_type]>>
       ELSE <<>>)

\* the report of an empty loop
EmptyReport == [duplicatesFound |-> 0, newItems |-> 0, differences |-> <<>>]

\* A faulty iteration that looks every item up in both maps, whatever its
\* type (what C29 rules out).
ReconcileItemOneMap(report, item, library_path, file_keys, dir_keys) ==
  LET item_path == Get(item, "path", <<>>)
      item_type == Get(item, "type", "")
      item_key  == CompositeKey(library_path, item_path)
      existing_item ==
        IF item_key \in DOMAIN file_keys THEN GetOpt(file_keys, item_key)
        ELSE GetOpt(dir_keys, item_key)
  IN  IF item_type \notin {"file", "directory"} THEN report
      ELSE IF Truthy(existing_item)
      THEN LET differences_found == CompareItemData(item, existing_item[1])
           IN  [report EXCEPT
                  !.duplicatesFound = @ + 1,
                  !.differences =
                     IF differences_found # <<>>
                     THEN Append(@, [path |-> item_path, type |-> item_type,
                                     differences |-> differences_found])
                     ELSE @]
      ELSE [report EXCEPT !.newItems = @ + 1]

\* A faulty iteration that counts a duplicate as a new item too (what C9
\* rules out).
ReconcileItemCountsTwice(report, item, library_path, file_keys, dir_keys) ==
  LET item_path == Get(item, "path", <<>>)
      item_type == Get(item, "type", "")
      item_key  == CompositeKey(library_path, item_path)
      existing_item ==
        IF item_type = "file" THEN GetOpt(file_keys, item_key)
        ELSE IF item_type = "directory" THEN GetOpt(dir_keys, item_key)
        ELSE None
  IN  IF item_type \notin {"file", "directory"} THEN report
      ELSE IF Truthy(existing_item)
      THEN LET differences_found == CompareItemData(item, existing_item[1])
           IN  [report EXCEPT
                  !.duplicatesFound = @ + 1,
                  !.newItems = @ + 1,
                  !.differences =
                     IF differences_found # <<>>
                     THEN Append(@, [path |-> item_path, type |-> item_type,
                                     differences |-> differences_found])
                     ELSE @]
      ELSE [report EXCEPT !.newItems = @ + 1]

\* One iteration of "for item in scan_results": look the item up by composite key
\* in the map of its type and count it as a duplicate or as new.
ReconcileItem(report, item, library_path, file_keys, dir_keys) ==
  LET item_path == Get(item, "path", <<>>)
      item_type == Get(item, "type", "")
      item_key  == CompositeKey(library_path, item_path)
      existing_item ==
        IF item_type = "file" THEN GetOpt(file_keys, item_key)
        ELSE IF item_type = "directory" THEN GetOpt(dir_keys, item_key)
        ELSE None
  IN  IF item_type \notin {"file", "directory"} THEN report
      ELSE IF Truthy(existing_item)
      THEN LET differences_found == CompareItemData(item, existing_item[1])
           IN  [report EXCEPT
                  !.duplicatesFound = @ + 1,
                  !.differences =
                     IF differences_found # <<>>
                     THEN Append(@, [path |-> item_path, type |-> item_type,
                                     differences |-> differences_found])
                     ELSE @]
      ELSE [report EXCEPT !.newItems = @ + 1]

RECURSIVE ReconcileLoop(_, _, _, _, _)
ReconcileLoop(report, scan_results, library_path, file_keys, dir_keys) ==
  IF scan_results = <<>> THEN report
  ELSE ReconcileLoop(
         ReconcileItem(report, Head(scan_results), library_path, file_keys, dir_keys),
         Tail(scan_results), library_path, file_keys, dir_keys)

\* "for item in scan_results" reaches an item of type file or directory whose
\* lookup is truthy and whose comparison raises
ReconcileRaises(scan_results, library_path, file_keys, dir_keys) ==
  \E i \in DOMAIN scan_results :
    LET item == scan_results[i]
        item_type == Get(item, "type", "")
        item_key == CompositeKey(library_path, Get(item, "path", <<>>))
        existing_item ==
          IF item_type = "file" THEN GetOpt(file_keys, item_key)
          ELSE IF item_type = "directory" THEN GetOpt(dir_keys, item_key)
          ELSE None
    IN  Truthy(existing_item) /\ CompareItemRaises(item, existing_item[1])

\* The report of the except branches of _check_duplicates_with_existing and
\* _check_duplicates; message is str(e).
ErrorReport(scan_results, message) ==
  [duplicatesFound |-> 0, newItems |-> Len(scan_results), differences |-> <<>>,
   error |-> message]

NoneHasNoGet == "'NoneType' object has no attribute 'get'"
StrHasNoGet == "'str' object has no attribute 'get'"

\* _check_duplicates_with_existing (offline mode): existing_files and
\* existing_directories are Optional lists supplied by the caller.  An
\* exception of the loop is caught and answered with the error report.
CheckDuplicatesWithExisting(scan_results, library_path, existing_files, existing_directories) ==
  LET files == IF IsNone(existing_files) THEN <<>> ELSE existing_files[1]
      dirs  == IF IsNone(existing_directories) THEN <<>> ELSE existing_directories[1]
  IN  IF ReconcileRaises(scan_results, library_path, ExistingKeys(files), ExistingKeys(dirs))
      THEN ErrorReport(scan_results, NoneHasNoGet)
      ELSE ReconcileLoop(EmptyReport, scan_results, library_path,
                         ExistingKeys(files), ExistingKeys(dirs))

\* FirestoreService.get_existing_file_paths / get_existing_directory_paths:
\* {} when the service is not initialized, else path -> document for every
\* document with a non-empty path.
GetExistingPaths(initialized, docs) ==
  IF ~initialized THEN EmptyDict
  ELSE LET pathOf(d) == Get(d, "path", <<>>)
           kept == SelectSeq(docs, LAMBDA d : pathOf(d) # <<>>)
       IN  DictOf([i \in DOMAIN kept |-> pathOf(kept[i])], kept)

GetExistingFilePaths(fs) == GetExistingPaths(fs.initialized, fs.mediaFiles)

GetExistingDirectoryPaths(fs) == GetExistingPaths(fs.initialized, fs.mediaDirectories)

\* _check_duplicates (online mode; the second definition of that name in the
\* class, which is the one Python binds).  The lookups return dicts keyed by
\* path; "for file_path in existing_files" iterates the dict's keys, which are
\* str, so file_path.get(...) raises AttributeError as soon as either dict has
\* an entry, and the except branch returns the error report.
CheckDuplicates(scan_results, library_path, fs) ==
  LET existing_files == GetExistingFilePaths(fs)
      existing_dirs  == GetExistingDirectoryPaths(fs)
  IN  IF DOMAIN existing_files # {} \/ DOMAIN existing_dirs # {}
      THEN ErrorReport(scan_results, StrHasNoGet)
      ELSE ReconcileLoop(EmptyReport, scan_results, library_path,
                         ExistingKeys(<<>>), ExistingKeys(<<>>))

----------------------------------------------------------------------------
(* Reconciler harness: the two reconciliation entry points applied to        *)
(* bounded inputs.                                                            *)

MaxItems == 2      \* discovered items per reconciliation
MaxExisting == 2   \* existing inventory entries per reconciliation

SeqsUpTo(S, n) == UNION {[1..k -> S] : k \in 0..n}

LibA == <<"/", "a">>
LibB == <<"/", "b">>
LibAColon == <<"/", "a", ":">>
PathX == <<"/", "x">>
PathUpperX == <<"/", "X">>
PathColonX == <<":", "/", "x">>

\* discovered items, as _process_file / _process_directory build them
Item(type, path) ==
  [type |-> type, path |-> path, media_type |-> Some("movie"),
   metadata |-> Some([size |-> Some(1)])]

\* the discovered items of the reconciliations: files and directories
RecItems ==
  { Item(t, p) : t \in {"file", "directory"}, p \in {PathX, PathUpperX, PathColonX} }

Existing(library_path, path, media_type, metadata) ==
  [libraryPath |-> library_path, path |-> path, media_type |-> media_type,
   metadata |-> metadata]

\* a metadata dict that holds a size only
SizeOnly(size) == Some([size |-> Some(size)])

\* existing inventory records: their own libraryPath, path and stored fields
RecExisting ==
  { Existing(LibA, PathX, Some("movie"), SizeOnly(1)),       \* same fields as a found item
    Existing(LibA, PathX, Some("movie"), SizeOnly(2)),       \* another size
    Existing(LibA, PathX, Some("unknown"), SizeOnly(1)),     \* another media_type
    Existing(LibA, PathX, Some("unknown"),
             Some([modified_time |-> Some(5)])),             \* all three fields differ
    Existing(LibA, PathX, Some("movie"),
             Some([size |-> Some(1), modified_time |-> None])), \* modified_time: None
    Existing(LibA, PathUpperX, Some("movie"), SizeOnly(1)),  \* same fields, path /X
    Existing(LibA, PathUpperX, Some("movie"), None),         \* metadata: None, path /X
    Existing(LibB, PathX, Some("movie"), SizeOnly(1)),       \* same path, other library
    Existing(LibAColon, PathX, Some("movie"), SizeOnly(1)) } \* a root ending in ':'

\* an inventory: a list of (kind, record), split into the two collections
InventoryEntries == {"file", "directory"} \X RecExisting

OfKind(inv, kind) ==
  LET rows == SelectSeq(inv, LAMBDA e : e[1] = kind)
  IN  [i \in DOMAIN rows |-> rows[i][2]]

\* AsyncTaskManager.__init__: no task, no running task
InitManager ==
  /\ tasks = <<>>
  /\ running_tasks = {}
  /\ async_tasks = <<>>

RecIdle == [pc |-> "idle"]

RecInit ==
  \E items \in SeqsUpTo(RecItems, MaxItems), lib \in {LibA, LibB},
     inv \in SeqsUpTo(InventoryEntries, MaxExisting) :
    /\ \A i, j \in DOMAIN items : items[i].path = items[j].path => i = j
    /\ rec = [pc |-> "input", scan_results |-> items, library_path |-> lib,
              existing_files |-> OfKind(inv, "file"),
              existing_directories |-> OfKind(inv, "directory"),
              offline |-> None, online |-> None]
    /\ firestore = [initialized |-> TRUE,
                    mediaFiles |-> OfKind(inv, "file"),
                    mediaDirectories |-> OfKind(inv, "directory")]

\* await self._check_duplicates_with_existing(scan_results, user_id, library_path, ...)
RecOffline ==
  /\ rec.pc = "input"
  /\ rec' = [rec EXCEPT
               !.pc = "offline",
               !.offline = Some(CheckDuplicatesWithExisting(
                              rec.scan_results, rec.library_path,
                              Some(rec.existing_files), Some(rec.existing_directories)))]
  /\ UNCHANGED <<running_scans, progress, scan_callbacks, task, clock, firestore, tree, ret,
                 stopped, manager>>

\* await self._check_duplicates(scan_results, user_id, library_path)
RecOnline ==
  /\ rec.pc = "offline"
  /\ rec' = [rec EXCEPT
               !.pc = "done",
               !.online = Some(CheckDuplicates(rec.scan_results, rec.library_path,
                                               firestore))]
  /\ UNCHANGED <<running_scans, progress, scan_callbacks, task, clock, firestore, tree, ret,
                 stopped, manager>>

NoCall == [op |-> "none", scan_id |-> 0, raised |-> FALSE, returned |-> FALSE]

InitRec ==
  /\ RecInit
  /\ InitManager
  /\ running_scans = {}
  /\ progress = <<>>
  /\ scan_callbacks = {}
  /\ task = <<>>
  /\ clock = 1
  /\ tree = "initial"
  /\ ret = NoCall
  /\ stopped = {}

NextRec == RecOffline \/ RecOnline

SpecRec == InitRec /\ [][NextRec]_vars

----------------------------------------------------------------------------
(* Settings (config/settings.py) *)

max_scan_depth == 10
max_concurrent_scans == 2

supported_video_extensions ==
  <<<<".", "m", "p", "4">>,
     <<".", "m", "k", "v">>,
     <<".", "a", "v", "i">>,
     <<".", "m", "o", "v">>,
     <<".", "w", "m", "v">>,
     <<".", "m", "4", "v">>,
     <<".", "f", "l", "v">>,
     <<".", "w", "e", "b", "m">>>>

supported_audio_extensions ==
  <<<<".", "m", "p", "3">>,
     <<".", "f", "l", "a", "c">>,
     <<".", "w", "a", "v">>,
     <<".", "a", "a", "c">>,
     <<".", "o", "g", "g">>>>

supported_subtitle_extensions ==
  <<<<".", "s", "r", "t">>,
     <<".", "v", "t", "t">>,
     <<".", "a", "s", "s">>,
     <<".", "s", "s", "a">>,
     <<".", "s", "u", "b">>,
     <<".", "i", "d", "x">>>>

----------------------------------------------------------------------------
(* Path classifier *)

\* str.upper() of one character, for the characters the patterns look at
UpperChar(c) == IF c = "s" THEN "S" ELSE IF c = "e" THEN "E" ELSE c

Range(s) == {s[i] : i \in DOMAIN s}

\* os.path.join(root, name): an absolute name replaces root; the separator is
\* inserted unless root is empty or already ends with one
Join(root, name) ==
  IF name # <<>> /\ name[1] = "/" THEN name
  ELSE IF root = <<>> \/ root[Len(root)] = "/" THEN root \o name
  ELSE root \o <<"/">> \o name

\* os.path.splitext(name)[1]: from the last dot on, unless only dots precede it
SplitExt(name) ==
  LET dots == {i \in DOMAIN name : name[i] = "." /\ \E j \in 1..(i - 1) : name[j] # "."}
  IN  IF dots = {} THEN <<>>
      ELSE LET last == CHOOSE i \in dots : \A j \in dots : j <= i
           IN  SubSeq(name, last, Len(name))

\* os.path.basename(path)
Basename(path) ==
  LET seps == {i \in DOMAIN path : path[i] = "/"}
  IN  IF seps = {} THEN path
      ELSE LET last == CHOOSE i \in seps : \A j \in seps : j <= i
           IN  SubSeq(path, last + 1, Len(path))

\* _is_media_file
IsMediaFile(filename) ==
  Lower(SplitExt(filename)) \in Range(supported_video_extensions
                                      \o supported_audio_extensions
                                      \o supported_subtitle_extensions)

\* _is_video_file
IsVideoFile(filename) == Lower(SplitExt(filename)) \in Range(supported_video_extensions)

IsDigit(c) == c \in {"0", "1", "2", "3", "4", "5", "6", "7", "8", "9"}

\* re.search(r'S\d+E\d+', filename, re.IGNORECASE)
HasEpisodePattern(filename) ==
  \E i \in DOMAIN filename, j \in DOMAIN filename :
    /\ i + 1 < j
    /\ j < Len(filename)
    /\ UpperChar(filename[i]) = "S"
    /\ \A k \in (i + 1)..(j - 1) : IsDigit(filename[k])
    /\ UpperChar(filename[j]) = "E"
    /\ IsDigit(filename[j + 1])

\* re.search(r'\(\d{4}\)', filename)
HasYearPattern(filename) ==
  \E i \in DOMAIN filename :
    /\ i + 5 <= Len(filename)
    /\ filename[i] = "("
    /\ \A k \in (i + 1)..(i + 4) : IsDigit(filename[k])
    /\ filename[i + 5] = ")"

\* _determine_file_media_type
DetermineFileMediaType(file_path) ==
  LET filename == Basename(file_path)
  IN  IF HasEpisodePattern(filename) THEN "episode"
      ELSE IF HasYearPattern(filename) THEN "movie"
      ELSE "unknown"

----------------------------------------------------------------------------
(* The directory tree the scans walk.  It is "initial" unless a specification *)
(* lets the file system change: "grown" has one more media file in /a/d and   *)
(* in /b, "gone" has lost the library roots.                                  *)

NameD == <<"d">>
NameHidden == <<".", "h">>
NameF == <<"f", ".", "m", "p", "4">>
NameG == <<"g", ".", "M", "K", "V">>
NameK == <<"k", ".", "m", "p", "4">>
NameN == <<"n", ".", "t", "x", "t">>
NameEaDir == <<"@", "e", "a", "D", "i", "r">>

\* a library deeper than max_scan_depth: a chain /e/d/d/.../d of ChainDepth
\* directories, with a media file g.MKV in each directory from depth
\* max_scan_depth on, and beside the chain a directory @eaDir holding f.mp4
LibE == <<"/", "e">>
ChainDepth == 12

\* root[len(path):].count(os.sep)
Count(s, c) == Cardinality({i \in DOMAIN s : s[i] = c})

DepthOf(top, root) == Count(SubSeq(root, Len(top) + 1, Len(root)), "/")

\* dir is a directory of the chain: /e followed by one or more "/d"
IsChainDir(dir) ==
  /\ Len(dir) > 2
  /\ Len(dir) % 2 = 0
  /\ SubSeq(dir, 1, 2) = LibE
  /\ \A i \in 3..Len(dir) : dir[i] = (IF i % 2 = 1 THEN "/" ELSE "d")

\* os.scandir of a directory: its sub-directories and its files, in listing order
Listing(dir) ==
  LET added == IF tree = "grown" THEN <<NameK>> ELSE <<>>
  IN  IF tree = "gone" THEN [dirs |-> <<>>, files |-> <<>>]
      ELSE IF dir = LibA THEN [dirs |-> <<NameD, NameHidden>>, files |-> <<NameF, NameN>>]
      ELSE IF dir = Join(LibA, NameD) THEN [dirs |-> <<>>, files |-> <<NameG>> \o added]
      ELSE IF dir = Join(LibA, NameHidden) THEN [dirs |-> <<>>, files |-> <<NameK>>]
      ELSE IF dir = LibB THEN [dirs |-> <<>>, files |-> <<NameF>> \o added]
      ELSE IF dir = LibE THEN [dirs |-> <<NameEaDir, NameD>>, files |-> <<>>]
      ELSE IF dir = Join(LibE, NameEaDir) THEN [dirs |-> <<>>, files |-> <<NameF>>]
      ELSE IF IsChainDir(dir)
      THEN [dirs |-> IF DepthOf(LibE, dir) < ChainDepth THEN <<NameD>> ELSE <<>>,
            files |-> IF DepthOf(LibE, dir) >= max_scan_depth THEN <<NameG>> ELSE <<>>]
      ELSE [dirs |-> <<>>, files |-> <<>>]

\* os.path.exists of a library root
Exists(top) == tree # "gone"

\* paths whose os.stat fails, so that get_file_metadata raises FileOperationError
Unreadable == {Join(LibB, NameF)}

\* os.path.isfile(path): False for an entry os.stat fails on
IsFile(path) == path \notin Unreadable

\* FileSystemManager.get_file_metadata, the fields the scanner's consumers read
GetFileMetadata(path) == [size |-> Some(1), modified |-> Some(3)]

\* FileSystemManager.validate_path_security ("TEMPORARILY DISABLED": always True)
ValidatePathSecurity(requested_path) == TRUE

\* dirs[:] = [d for d in dirs if not d.startswith('.') and d not in ['@eaDir']]
KeptDirs(dirs) ==
  SelectSeq(dirs, LAMBDA d : ~(Len(d) >= 1 /\ d[1] = ".")
                             /\ d # <<"@", "e", "a", "D", "i", "r">>)

\* os.walk(top), top-down, with the loop body's pruning of dirs: the sequence
\* of (root, dirs the body keeps, files); below a root at max_scan_depth the
\* body clears dirs, so the walk does not descend.
RECURSIVE WalkFrom(_, _)
RECURSIVE WalkEach(_, _, _)
WalkFrom(top, root) ==
  LET dirs == KeptDirs(Listing(root).dirs)
      descend == IF DepthOf(top, root) >= max_scan_depth THEN <<>> ELSE dirs
  IN  <<[root |-> root, dirs |-> dirs, files |-> Listing(root).files]>>
      \o WalkEach(top, root, descend)

WalkEach(top, root, dirs) ==
  IF dirs = <<>> THEN <<>>
  ELSE WalkFrom(top, Join(root, Head(dirs))) \o WalkEach(top, root, Tail(dirs))

\* os.walk(top): nothing when top cannot be listed (onerror is None, so the
\* OSError of scandir is swallowed)
Walk(top) == IF Exists(top) THEN WalkFrom(top, top) ELSE <<>>

RECURSIVE SumSeq(_)
SumSeq(s) == IF s = <<>> THEN 0 ELSE Head(s) + SumSeq(Tail(s))

RECURSIVE Flatten(_)
Flatten(ss) == IF ss = <<>> THEN <<>> ELSE Head(ss) \o Flatten(Tail(ss))

\* A faulty count that leaves out the directories listed at the depth limit,
\* which the walk does not descend into (what C28 rules out).
CountItemsWithinLimit(path) ==
  LET walk == Walk(path)
  IN  SumSeq([i \in DOMAIN walk |->
                (IF DepthOf(path, walk[i].root) >= max_scan_depth THEN 0
                 ELSE Len(walk[i].dirs))
                + Len(SelectSeq(walk[i].files, IsMediaFile))])

\* _count_items_sync: the kept directories and the media files of every root
CountItemsSync(path) ==
  LET walk == Walk(path)
  IN  SumSeq([i \in DOMAIN walk |->
                Len(walk[i].dirs) + Len(SelectSeq(walk[i].files, IsMediaFile))])

\* The iterations of _scan_directory_sync's loops, in order: each root of the
\* walk, then its kept directories, then its media files.
ScanSteps(directory_path) ==
  LET walk == Walk(directory_path)
      media(i) == SelectSeq(walk[i].files, IsMediaFile)
  IN  Flatten([i \in DOMAIN walk |->
        <<[kind |-> "root", path |-> walk[i].root]>>
        \o [k \in DOMAIN walk[i].dirs |->
              [kind |-> "directory", path |-> Join(walk[i].root, walk[i].dirs[k])]]
        \o [k \in DOMAIN media(i) |->
              [kind |-> "file", path |-> Join(walk[i].root, media(i)[k])]]])

\* _determine_directory_type
DetermineDirectoryType(dir_name, dir_path) ==
  IF Len(dir_name) >= 6 /\ Lower(SubSeq(dir_name, 1, 6)) = <<"s", "e", "a", "s", "o", "n">>
  THEN "season"
  ELSE IF "(" \in Range(dir_name) /\ ")" \in Range(dir_name)
  THEN (IF \E f \in Range(Listing(dir_path).files) :
              IsFile(Join(dir_path, f)) /\ IsVideoFile(f)
        THEN "movie" ELSE "series")
  ELSE "unknown"

\* _process_directory: the item, or None when anything in it raised
ProcessDirectory(dir_path) ==
  IF dir_path \in Unreadable THEN None
  ELSE Some([type |-> "directory",
             path |-> dir_path,
             name |-> Basename(dir_path),
             media_type |-> Some(DetermineDirectoryType(Basename(dir_path), dir_path)),
             metadata |-> Some(GetFileMetadata(dir_path))])

\* _process_file: the item, or None when anything in it raised
ProcessFile(file_path) ==
  IF file_path \in Unreadable THEN None
  ELSE Some([type |-> "file",
             path |-> file_path,
             name |-> Basename(file_path),
             media_type |-> Some(DetermineFileMediaType(file_path)),
             metadata |-> Some(GetFileMetadata(file_path))])

----------------------------------------------------------------------------
(* The scanner: registry, caller-facing operations and the background task *)

MaxScans == 2          \* scans started in one run of Spec
MaxCeilingScans == 3   \* scans started in one run of SpecCeiling
MaxClock == 2          \* last clock reading

LibC == <<"/", "c">>   \* an empty library

Terminal == {"completed", "error", "cancelled"}

\* ScanProgress(scan_id=scan_id, current_path=library_path, start_time=time.time())
NewProgress(library_path, now) ==
  [total_items |-> 0, processed_items |-> 0, current_path |-> library_path,
   status |-> "scanning", errors |-> <<>>, start_time |-> now, end_time |-> None,
   files_found |-> 0, directories_found |-> 0, scan_results |-> <<>>,
   duplicate_report |-> None]

\* Python floats are IEEE 754 binary64 numbers: a mantissa of 53 bits, the
\* leading one included.  A positive float is written [m |-> its mantissa, most
\* significant bit first, e |-> the binary exponent of the leading bit].
MantissaBits == 53

\* the number a sequence of at most 30 bits, most significant first, stands for
RECURSIVE BitsValue(_)
BitsValue(bits) ==
  IF Len(bits) = 0 THEN 0
  ELSE IF Len(bits) = 1 THEN bits[1]
  ELSE LET h == Len(bits) \div 2
       IN  BitsValue(SubSeq(bits, 1, h)) * 2^(Len(bits) - h)
             + BitsValue(SubSeq(bits, h + 1, Len(bits)))

\* the next n >= 1 bits of the binary expansion of r / T, for r < T, and the
\* remainder left after them
RECURSIVE QuotientBits(_, _, _)
QuotientBits(r, T, n) ==
  IF n = 1
  THEN IF 2 * r >= T THEN [bits |-> <<1>>, rem |-> 2 * r - T]
       ELSE [bits |-> <<0>>, rem |-> 2 * r]
  ELSE LET first == QuotientBits(r, T, n \div 2)
           rest == QuotientBits(first.rem, T, n - n \div 2)
       IN  [bits |-> first.bits \o rest.bits, rem |-> rest.rem]

\* The float nearest to an exact result, ties to the even mantissa: bits are
\* the leading bits of the result (more than a mantissa of them, the first a
\* one, that of exponent e), sticky tells whether anything but zeros follows.
RoundToFloat(bits, sticky, e) ==
  LET m == SubSeq(bits, 1, MantissaBits)
      guard == bits[MantissaBits + 1]
      below == sticky \/ \E i \in (MantissaBits + 2)..Len(bits) : bits[i] = 1
      up == guard = 1 /\ (below \/ m[MantissaBits] = 1)
      zeros == {i \in 1..MantissaBits : m[i] = 0}
      j == CHOOSE i \in zeros : \A k \in zeros : k <= i
  IN  IF ~up THEN [m |-> m, e |-> e]
      ELSE IF zeros = {}
      THEN [m |-> [i \in 1..MantissaBits |-> IF i = 1 THEN 1 ELSE 0], e |-> e + 1]
      ELSE [m |-> [i \in 1..MantissaBits |-> IF i < j THEN m[i] ELSE IF i = j THEN 1 ELSE 0],
            e |-> e]

\* a / b for positive ints a and b below 2^30: the float nearest to the
\* quotient.  The quotient is brought to the form (P / T) * 2^e with
\* T <= P < 2T (k is the shift that does it), then divided bit by bit.
FloatDiv(a, b) ==
  LET norm == IF a >= b
              THEN LET k == CHOOSE i \in 0..29 :
                              (a \div 2^i) >= b /\ (a \div 2^(i + 1)) < b
                   IN  [P |-> a, T |-> b * 2^k, e |-> k]
              ELSE LET k == CHOOSE i \in 1..30 :
                              /\ a >= (b + 2^i - 1) \div 2^i
                              /\ a < (b + 2^(i - 1) - 1) \div 2^(i - 1)
                   IN  [P |-> a * 2^k, T |-> b, e |-> 0 - k]
      quot == QuotientBits(norm.P - norm.T, norm.T, MantissaBits)
  IN  RoundToFloat(<<1>> \o quot.bits, quot.rem # 0, norm.e)

\* bits (at least one, least significant first) times the positive int c, plus
\* carry: the low Len(low) bits of the result, least significant first, and
\* what is carried out of them
RECURSIVE TimesLow(_, _, _)
TimesLow(low, c, carry) ==
  IF Len(low) = 1
  THEN [bits |-> <<(low[1] * c + carry) % 2>>, carry |-> (low[1] * c + carry) \div 2]
  ELSE LET h == Len(low) \div 2
           first == TimesLow(SubSeq(low, 1, h), c, carry)
           rest == TimesLow(SubSeq(low, h + 1, Len(low)), c, first.carry)
       IN  [bits |-> first.bits \o rest.bits, carry |-> rest.carry]

\* the exact product of a mantissa (bits, most significant first) and the
\* positive int c below 2^30, as bits: computed from the low end, the final
\* carry written out in front
Times(bits, c) ==
  LET Reversed(s) == [i \in 1..Len(s) |-> s[Len(s) + 1 - i]]
      product == TimesLow(Reversed(bits), c, 0)
      len == CHOOSE i \in 1..30 : 2^(i - 1) <= product.carry /\ product.carry < 2^i
  IN  IF product.carry = 0 THEN Reversed(product.bits)
      ELSE [i \in 1..len |-> (product.carry \div 2^(len - i)) % 2] \o Reversed(product.bits)

\* round(x, 2) for a positive float x below 2^20, in hundredths: the integer
\* nearest to the exact value of 100 * x, an exact tie going to the even one
Round2(x) ==
  LET z == Times(x.m, 100)
      n == Len(z) - (MantissaBits - 1 - x.e)
      whole == IF n <= 0 THEN 0 ELSE BitsValue(SubSeq(z, 1, n))
      half == n >= 0 /\ z[n + 1] = 1
      below == \E i \in (n + 2)..Len(z) : i >= 1 /\ z[i] = 1
      up == half /\ (below \/ whole % 2 = 1)
  IN  whole + (IF up THEN 1 ELSE 0)

\* ScanProgress.percentage, in hundredths of a percent: 0 when total_items == 0,
\* else round((processed_items / total_items) * 100, 2), computed in floats as
\* Python computes it (0 / total_items is 0.0).
Percentage(p) ==
  IF p.total_items = 0 THEN 0
  ELSE IF p.processed_items = 0 THEN 0
  ELSE LET x == FloatDiv(p.processed_items, p.total_items)
           z == Times(x.m, 100)
       IN  Round2(RoundToFloat(z, FALSE, x.e + Len(z) - MantissaBits))

\* the arguments create_task hands to _run_scan_async, the task's position
\* (the coroutine has not run yet), the result of its count, the results of
\* its walk, and (history) whether the walk could list its root and what the
\* scan's progress callback was handed at each of its invocations
NewTask(library_path, extract_metadata, check_duplicates, user_id, existing_files, existing_directories) ==
  [pc |-> "created", total_items |-> 0, library_path |-> library_path,
   extract_metadata |-> extract_metadata, check_duplicates |-> check_duplicates,
   user_id |-> user_id, existing_files |-> existing_files,
   existing_directories |-> existing_directories, step |-> 1, results |-> <<>>,
   root_found |-> TRUE, seen |-> <<>>]

\* the last call of a caller: the operation, the scan id it named (0 for
\* start_scan, which names none), whether it raised, and a boolean result
Call(op, scan_id, raised, returned) ==
  [op |-> op, scan_id |-> scan_id, raised |-> raised, returned |-> returned]

\* active_scans = [s for s in self.running_scans.values() if s.status == "scanning"]
ActiveScans == {id \in running_scans : progress[id].status = "scanning"}

\* len([r for r in results if r.get('type') == type])
CountType(results, type) == Len(SelectSeq(results, LAMBDA r : r.type = type))

\* _add_scan_error / progress.errors.append({...})
AddScanError(p, error_type, path) ==
  [p EXCEPT !.errors = Append(@, [type |-> error_type, path |-> path])]

\* The progress callback a caller registers: an observer that fails on its
\* second per-item notification and returns normally otherwise.
CallbackRaises(p) == p.processed_items = 2 /\ p.status \notin {"completed", "error"}

\* "if scan_id in self.scan_callbacks: try: self.scan_callbacks[scan_id](progress)
\* except: ...": the callback, when one is registered, is handed the record; what
\* it raises is swallowed.  seen grows by what the callback saw.
Notify(scan_id, seen, p) ==
  IF scan_id \in scan_callbacks
  THEN Append(seen, [processed_items |-> p.processed_items, status |-> p.status,
                     raised |-> CallbackRaises(p)])
  ELSE seen

\* start_scan: the ceiling check, the path check, then the record, the callback
\* and the background task, which has not run when start_scan returns.
StartScanRaises(c) ==
  /\ ret' = Call("start_scan", 0, TRUE, FALSE)
  /\ UNCHANGED <<running_scans, progress, scan_callbacks, task, clock, firestore, tree,
                 stopped, rec, manager>>

\* A faulty start_scan that admits a scan at the ceiling (what C4 rules out).
StartScanAboveCeiling(library_path, callback, extract_metadata, check_duplicates, user_id, existing_files, existing_directories) ==
  IF Cardinality(ActiveScans) > max_concurrent_scans
  THEN StartScanRaises("Maximum concurrent scans reached")
  ELSE LET scan_id == Len(progress) + 1
       IN  /\ progress' = Append(progress, NewProgress(library_path, clock))
           /\ running_scans' = running_scans \cup {scan_id}
           /\ scan_callbacks' = IF callback THEN scan_callbacks \cup {scan_id}
                                ELSE scan_callbacks
           /\ task' = Append(task, NewTask(library_path, extract_metadata,
                                           check_duplicates, user_id,
                                           existing_files, existing_directories))
           /\ ret' = Call("start_scan", 0, FALSE, TRUE)
           /\ UNCHANGED <<clock, firestore, tree, stopped, rec, manager>>

\* A faulty start_scan that registers the record and the callback before it
\* tests the ceiling (what C5 rules out).
StartScanRecordsFirst(library_path, callback, extract_metadata, check_duplicates, user_id, existing_files, existing_directories) ==
  LET scan_id == Len(progress) + 1
      full == Cardinality(ActiveScans) >= max_concurrent_scans
  IN  /\ progress' = Append(progress, NewProgress(library_path, clock))
      /\ running_scans' = running_scans \cup {scan_id}
      /\ scan_callbacks' = IF callback THEN scan_callbacks \cup {scan_id}
                           ELSE scan_callbacks
      /\ task' = Append(task, [NewTask(library_path, extract_metadata,
                                       check_duplicates, user_id, existing_files,
                                       existing_directories)
                                 EXCEPT !.pc = IF full THEN "done" ELSE @])
      /\ ret' = IF full THEN Call("start_scan", 0, TRUE, FALSE)
                ELSE Call("start_scan", 0, FALSE, TRUE)
      /\ UNCHANGED <<clock, firestore, tree, stopped, rec, manager>>

StartScan(library_path, callback, extract_metadata, check_duplicates, user_id, existing_files, existing_directories) ==
  IF Cardinality(ActiveScans) >= max_concurrent_scans
  THEN StartScanRaises("Maximum concurrent scans reached")
  ELSE IF ~ValidatePathSecurity(library_path)
  THEN StartScanRaises("Path not allowed")
  ELSE LET scan_id == Len(progress) + 1
       IN  /\ progress' = Append(progress, NewProgress(library_path, clock))
           /\ running_scans' = running_scans \cup {scan_id}
           /\ scan_callbacks' = IF callback THEN scan_callbacks \cup {scan_id}
                                ELSE scan_callbacks
           /\ task' = Append(task, NewTask(library_path, extract_metadata,
                                           check_duplicates, user_id,
                                           existing_files, existing_directories))
           /\ ret' = Call("start_scan", 0, FALSE, TRUE)
           /\ UNCHANGED <<clock, firestore, tree, stopped, rec, manager>>

\* A faulty stop_scan without the status test (what C3 rules out).
StopScanAnyStatus(scan_id) ==
  /\ IF scan_id \notin running_scans
     THEN /\ ret' = Call("stop_scan", scan_id, FALSE, FALSE)
          /\ UNCHANGED <<progress, stopped>>
     ELSE /\ progress' = [progress EXCEPT ![scan_id].status = "cancelled",
                                          ![scan_id].end_time = Some(clock)]
          /\ ret' = Call("stop_scan", scan_id, FALSE, TRUE)
          /\ stopped' = stopped \cup {scan_id}
  /\ UNCHANGED <<running_scans, scan_callbacks, task, clock, firestore, tree, rec, manager>>

\* A faulty stop_scan that does not look the id up in the registry (what C15
\* rules out).
StopScanUnregistered(scan_id) ==
  /\ IF scan_id \in DOMAIN progress /\ progress[scan_id].status = "scanning"
     THEN /\ progress' = [progress EXCEPT ![scan_id].status = "cancelled",
                                          ![scan_id].end_time = Some(clock)]
          /\ ret' = Call("stop_scan", scan_id, FALSE, TRUE)
          /\ stopped' = stopped \cup {scan_id}
     ELSE /\ ret' = Call("stop_scan", scan_id, FALSE, FALSE)
          /\ UNCHANGED <<progress, stopped>>
  /\ UNCHANGED <<running_scans, scan_callbacks, task, clock, firestore, tree, rec, manager>>

\* A faulty stop_scan that drops the record it cancels (what C16 rules out).
StopScanAndForget(scan_id) ==
  /\ IF scan_id \in running_scans /\ progress[scan_id].status = "scanning"
     THEN /\ progress' = [progress EXCEPT ![scan_id].status = "cancelled",
                                          ![scan_id].end_time = Some(clock)]
          /\ running_scans' = running_scans \ {scan_id}
          /\ ret' = Call("stop_scan", scan_id, FALSE, TRUE)
          /\ stopped' = stopped \cup {scan_id}
     ELSE /\ ret' = Call("stop_scan", scan_id, FALSE, FALSE)
          /\ UNCHANGED <<running_scans, progress, stopped>>
  /\ UNCHANGED <<scan_callbacks, task, clock, firestore, tree, rec, manager>>

\* A faulty stop_scan that sets the status and leaves end_time unset (what C23
\* rules out).
StopScanOpenEnded(scan_id) ==
  /\ IF scan_id \notin running_scans
     THEN /\ ret' = Call("stop_scan", scan_id, FALSE, FALSE)
          /\ UNCHANGED <<progress, stopped>>
     ELSE IF progress[scan_id].status = "scanning"
     THEN /\ progress' = [progress EXCEPT ![scan_id].status = "cancelled"]
          /\ ret' = Call("stop_scan", scan_id, FALSE, TRUE)
          /\ stopped' = stopped \cup {scan_id}
     ELSE /\ ret' = Call("stop_scan", scan_id, FALSE, FALSE)
          /\ UNCHANGED <<progress, stopped>>
  /\ UNCHANGED <<running_scans, scan_callbacks, task, clock, firestore, tree, rec, manager>>

\* A faulty stop_scan that also resets the counters and the results of the
\* scan it cancels (what C32 rules out).
StopScanResetsCounts(scan_id) ==
  /\ IF scan_id \notin running_scans
     THEN /\ ret' = Call("stop_scan", scan_id, FALSE, FALSE)
          /\ UNCHANGED <<progress, stopped>>
     ELSE IF progress[scan_id].status = "scanning"
     THEN /\ progress' = [progress EXCEPT ![scan_id].status = "cancelled",
                                          ![scan_id].end_time = Some(clock),
                                          ![scan_id].total_items = 0,
                                          ![scan_id].processed_items = 0]
          /\ ret' = Call("stop_scan", scan_id, FALSE, TRUE)
          /\ stopped' = stopped \cup {scan_id}
     ELSE /\ ret' = Call("stop_scan", scan_id, FALSE, FALSE)
          /\ UNCHANGED <<progress, stopped>>
  /\ UNCHANGED <<running_scans, scan_callbacks, task, clock, firestore, tree, rec, manager>>

\* stop_scan
StopScan(scan_id) ==
  /\ IF scan_id \notin running_scans
     THEN /\ ret' = Call("stop_scan", scan_id, FALSE, FALSE)
          /\ UNCHANGED <<progress, stopped>>
     ELSE IF progress[scan_id].status = "scanning"
     THEN /\ progress' = [progress EXCEPT ![scan_id].status = "cancelled",
                                          ![scan_id].end_time = Some(clock)]
          /\ ret' = Call("stop_scan", scan_id, FALSE, TRUE)
          /\ stopped' = stopped \cup {scan_id}
     ELSE /\ ret' = Call("stop_scan", scan_id, FALSE, FALSE)
          /\ UNCHANGED <<progress, stopped>>
  /\ UNCHANGED <<running_scans, scan_callbacks, task, clock, firestore, tree, rec, manager>>

\* ScanProgress.elapsed_time: (end_time or time.time()) - start_time
ElapsedTime(p) ==
  (IF IsNone(p.end_time) \/ p.end_time[1] = 0 THEN clock ELSE p.end_time[1]) - p.start_time

\* A get_scan_status call: the scan id it names, where it is ("asdict" while
\* asdict(progress) copies the fields, "properties" before the two computed
\* properties are read, "done" once it has returned), whether it returned a
\* dictionary, and the dictionary built so far (None when it returned None).
StatusCall(scan_id, pc, returned, status_dict) ==
  [op |-> "get_scan_status", scan_id |-> scan_id, raised |-> FALSE, returned |-> returned,
   pc |-> pc, status_dict |-> status_dict]

\* No get_scan_status call is under way: the event loop is free to run another
\* handler or to resume a coroutine.  get_scan_status is synchronous code on
\* the event loop, so while it runs only the executor's worker threads (and
\* the clock) move.
LoopFree == ret.op = "get_scan_status" => ret.pc = "done"

\* the fields of ScanProgress that asdict copies before current_path
HeadFields == {"total_items", "processed_items"}

\* the entries of dictionary d with the fields fs of record p added
WithFields(d, p, fs) ==
  [f \in DOMAIN d \cup fs |-> IF f \in fs THEN p[f] ELSE d[f]]

\* get_scan_status, lines 791-795: "if scan_id not in self.running_scans:
\* return None", the lookup, and the start of asdict(progress), which copies
\* the fields in the order of their declaration: up to processed_items here
GetScanStatus(scan_id) ==
  /\ LoopFree
  /\ ret' = IF scan_id \notin running_scans
            THEN StatusCall(scan_id, "done", FALSE, None)
            ELSE StatusCall(scan_id, "asdict", FALSE,
                            Some(WithFields(<<>>, progress[scan_id], HeadFields)))
  /\ UNCHANGED <<running_scans, progress, scan_callbacks, task, clock, firestore, tree,
                 stopped, rec, manager>>

\* the rest of asdict(progress), line 795: current_path and the fields after it
AsDict(scan_id) ==
  /\ ret.op = "get_scan_status" /\ ret.scan_id = scan_id /\ ret.pc = "asdict"
  /\ ret' = [ret EXCEPT
               !.pc = "properties",
               !.status_dict = Some(WithFields(@[1], progress[scan_id],
                                               DOMAIN progress[scan_id] \ HeadFields))]
  /\ UNCHANGED <<running_scans, progress, scan_callbacks, task, clock, firestore, tree,
                 stopped, rec, manager>>

\* lines 797-799: status_dict['percentage'] = progress.percentage and
\* status_dict['elapsed_time'] = progress.elapsed_time read the record again;
\* then the dictionary is returned
ComputedProperties(scan_id) ==
  /\ ret.op = "get_scan_status" /\ ret.scan_id = scan_id /\ ret.pc = "properties"
  /\ LET p == progress[scan_id]
         d == ret.status_dict[1]
     IN  ret' = [ret EXCEPT
                   !.pc = "done",
                   !.returned = TRUE,
                   !.status_dict =
                      Some([f \in DOMAIN d \cup {"percentage", "elapsed_time"} |->
                              IF f = "percentage" THEN Percentage(p)
                              ELSE IF f = "elapsed_time" THEN ElapsedTime(p)
                              ELSE d[f]])]
  /\ UNCHANGED <<running_scans, progress, scan_callbacks, task, clock, firestore, tree,
                 stopped, rec, manager>>

\* a caller polls get_scan_status: the steps of one call
GetStatus(scan_id) ==
  \/ GetScanStatus(scan_id)
  \/ AsDict(scan_id)
  \/ ComputedProperties(scan_id)

\* A faulty get_scan_results that hands out the results of a scan in any
\* terminal status (what C37 rules out).
GetScanResultsAnyTerminal(scan_id) ==
  IF scan_id \in running_scans /\ progress[scan_id].status \in Terminal
  THEN Some(progress[scan_id].scan_results)
  ELSE None

\* get_scan_results: the record's scan_results when the id is registered and
\* the status is "completed" (hasattr(progress, 'scan_results') always holds
\* for the dataclass), else None
GetScanResults(scan_id) ==
  IF scan_id \in running_scans /\ progress[scan_id].status = "completed"
  THEN Some(progress[scan_id].scan_results)
  ELSE None

\* a caller asks for the results; ret records whether a list came back
GetResults(scan_id) ==
  /\ ret' = Call("get_scan_results", scan_id, FALSE, ~IsNone(GetScanResults(scan_id)))
  /\ UNCHANGED <<running_scans, progress, scan_callbacks, task, clock, firestore, tree,
                 stopped, rec, manager>>

\* A faulty cleanup by id that forgets the callback table (what C35 rules out).
CleanupScanKeepsCallback(scan_id) ==
  /\ running_scans' = running_scans \ {scan_id}
  /\ UNCHANGED <<scan_callbacks, progress, task, clock, firestore, tree, ret, stopped, rec,
                 manager>>

\* DELETE /scan/cleanup/{scan_id} (api/library_operations.py): cleanup by id
CleanupScan(scan_id) ==
  /\ running_scans' = running_scans \ {scan_id}
  /\ scan_callbacks' = scan_callbacks \ {scan_id}
  /\ UNCHANGED <<progress, task, clock, firestore, tree, ret, stopped, rec, manager>>

\* A faulty sweep that takes max_age_hours for seconds (what C13 rules out).
CleanupYoungerThanAnHour(max_age_hours) ==
  LET to_remove == {id \in running_scans :
                      /\ progress[id].status \in {"completed", "cancelled", "error"}
                      /\ ~IsNone(progress[id].end_time)
                      /\ (clock - progress[id].end_time[1]) > max_age_hours}
  IN  /\ running_scans' = running_scans \ to_remove
      /\ scan_callbacks' = scan_callbacks \ to_remove
      /\ ret' = Call("cleanup_completed_scans", 0, FALSE, FALSE)
      /\ UNCHANGED <<progress, task, clock, firestore, tree, stopped, rec, manager>>

\* cleanup_completed_scans(max_age_hours); it returns nothing
CleanupCompletedScans(max_age_hours) ==
  LET max_age_seconds == max_age_hours * 3600
      to_remove == {id \in running_scans :
                      /\ progress[id].status \in {"completed", "cancelled", "error"}
                      /\ ~IsNone(progress[id].end_time)
                      /\ progress[id].end_time[1] # 0
                      /\ (clock - progress[id].end_time[1]) > max_age_seconds}
  IN  /\ running_scans' = running_scans \ to_remove
      /\ scan_callbacks' = scan_callbacks \ to_remove
      /\ ret' = Call("cleanup_completed_scans", 0, FALSE, FALSE)
      /\ UNCHANGED <<progress, task, clock, firestore, tree, stopped, rec, manager>>

\* time passes
Tick ==
  /\ clock < MaxClock
  /\ clock' = clock + 1
  /\ UNCHANGED <<running_scans, progress, scan_callbacks, task, firestore, tree, ret,
                 stopped, rec, manager>>

\* The first step of the background task: progress = self.running_scans[scan_id]
\* raises KeyError, before the try statement, when the record was evicted; the
\* task ends there and touches nothing.  Otherwise the count pass goes to the
\* executor.
RunScanAsync(scan_id) ==
  /\ scan_id \in DOMAIN task
  /\ task[scan_id].pc = "created"
  /\ task' = [task EXCEPT ![scan_id].pc =
                 IF scan_id \in running_scans THEN "count" ELSE "dead"]
  /\ UNCHANGED <<running_scans, progress, scan_callbacks, clock, firestore, tree, ret,
                 stopped, rec, manager>>

\* _count_items_async: _count_items_sync walks the tree in a worker thread;
\* its result waits for the coroutine to resume
CountItemsAsync(scan_id) ==
  /\ scan_id \in DOMAIN task
  /\ task[scan_id].pc = "count"
  /\ task' = [task EXCEPT ![scan_id].pc = "counted",
                          ![scan_id].total_items =
                             CountItemsSync(task[scan_id].library_path)]
  /\ UNCHANGED <<running_scans, progress, scan_callbacks, clock, firestore, tree, ret,
                 stopped, rec, manager>>

\* A faulty first pass that lets the process pass start before the count is
\* stored, and stores it when the walk has returned (what C17 rules out).
CountItemsLate(scan_id) ==
  /\ scan_id \in DOMAIN task
  /\ \/ /\ task[scan_id].pc = "counted"
        /\ task' = [task EXCEPT ![scan_id].pc = "scan"]
        /\ UNCHANGED progress
     \/ /\ task[scan_id].pc = "returned"
        /\ progress[scan_id].total_items = 0
        /\ task[scan_id].total_items # 0
        /\ progress' = [progress EXCEPT
                          ![scan_id].total_items = task[scan_id].total_items]
        /\ UNCHANGED task
  /\ UNCHANGED <<running_scans, scan_callbacks, clock, firestore, tree, ret, stopped, rec, manager>>

\* _run_scan_async resumes from "await self._count_items_async(library_path)":
\* progress.total_items = total_items; then the process pass goes to the executor.
CountItems(scan_id) ==
  /\ scan_id \in DOMAIN task
  /\ task[scan_id].pc = "counted"
  /\ progress' = [progress EXCEPT ![scan_id].total_items = task[scan_id].total_items]
  /\ task' = [task EXCEPT ![scan_id].pc = "scan"]
  /\ UNCHANGED <<running_scans, scan_callbacks, clock, firestore, tree, ret, stopped, rec, manager>>

\* _scan_directory_sync starts in a worker thread: progress =
\* self.running_scans[scan_id] raises KeyError when the record was evicted; the
\* exception waits for the coroutine to resume.
ScanStart(scan_id) ==
  /\ scan_id \in DOMAIN task
  /\ task[scan_id].pc = "scan"
  /\ task' = IF scan_id \in running_scans
             THEN [task EXCEPT ![scan_id].pc = "walk", ![scan_id].step = 1,
                               ![scan_id].results = <<>>,
                               ![scan_id].root_found =
                                  Exists(task[scan_id].library_path)]
             ELSE [task EXCEPT ![scan_id].pc = "raised"]
  /\ UNCHANGED <<running_scans, progress, scan_callbacks, clock, firestore, tree, ret,
                 stopped, rec, manager>>

\* the loop iteration the walk of this scan is at
StepsOf(scan_id) == ScanSteps(task[scan_id].library_path)

\* A faulty loop head without the cancellation check (what C27 rules out).
WalkCheckIgnoresCancel(scan_id) ==
  /\ scan_id \in DOMAIN task
  /\ task[scan_id].pc = "walk"
  /\ LET k == task[scan_id].step
         steps == StepsOf(scan_id)
     IN  IF k > Len(steps)
         THEN task' = [task EXCEPT ![scan_id].pc = "returned"]
         ELSE task' = [task EXCEPT
                         ![scan_id].pc = IF steps[k].kind = "root" THEN "root" ELSE "entry"]
  /\ UNCHANGED <<running_scans, progress, scan_callbacks, clock, firestore, tree, ret,
                 stopped, rec, manager>>

\* A faulty loop head that leaves the walk only on cancellation and hangs at
\* the end of the tree (what C25 rules out).
WalkCheckHangs(scan_id) ==
  /\ scan_id \in DOMAIN task
  /\ task[scan_id].pc = "walk"
  /\ LET k == task[scan_id].step
         steps == StepsOf(scan_id)
     IN  IF progress[scan_id].status = "cancelled"
         THEN task' = [task EXCEPT ![scan_id].pc = "returned"]
         ELSE /\ k <= Len(steps)
              /\ task' = [task EXCEPT
                            ![scan_id].pc = IF steps[k].kind = "root" THEN "root"
                                            ELSE "entry"]
  /\ UNCHANGED <<running_scans, progress, scan_callbacks, clock, firestore, tree, ret,
                 stopped, rec, manager>>

\* The head of a loop iteration: the cancellation check (a break leaves the
\* loops, and every later check breaks too, so the walk returns), the end of
\* the walk, a new root whose check has passed (line 385), or an entry to
\* process.  The worker thread only reads progress.status here; what it does
\* next is a later access of the record.
WalkCheck(scan_id) ==
  /\ scan_id \in DOMAIN task
  /\ task[scan_id].pc = "walk"
  /\ LET k == task[scan_id].step
         steps == StepsOf(scan_id)
     IN  IF k > Len(steps) \/ progress[scan_id].status = "cancelled"
         THEN task' = [task EXCEPT ![scan_id].pc = "returned"]
         ELSE task' = [task EXCEPT
                         ![scan_id].pc = IF steps[k].kind = "root" THEN "root" ELSE "entry"]
  /\ UNCHANGED <<running_scans, progress, scan_callbacks, clock, firestore, tree, ret,
                 stopped, rec, manager>>

\* "progress.current_path = root" (line 392): the write that follows the check
\* of line 385 and the filter of dirs, whatever the event loop did to the
\* record's status in between.
SetCurrentPath(scan_id) ==
  /\ scan_id \in DOMAIN task
  /\ task[scan_id].pc = "root"
  /\ progress' = [progress EXCEPT
                    ![scan_id].current_path = StepsOf(scan_id)[task[scan_id].step].path]
  /\ task' = [task EXCEPT ![scan_id].pc = "walk", ![scan_id].step = @ + 1]
  /\ UNCHANGED <<running_scans, scan_callbacks, clock, firestore, tree, ret, stopped, rec,
                 manager>>

\* A faulty loop body that counts an entry only when it yields a result
\* (what C18 rules out).
ProcessEntryCountsResults(scan_id) ==
  /\ scan_id \in DOMAIN task
  /\ task[scan_id].pc = "entry"
  /\ LET entry == StepsOf(scan_id)[task[scan_id].step]
         info == IF entry.kind = "directory" THEN ProcessDirectory(entry.path)
                 ELSE ProcessFile(entry.path)
     IN  /\ progress' = [progress EXCEPT ![scan_id].processed_items = @ + Len(info)]
         /\ task' = [task EXCEPT ![scan_id].pc = IF scan_id \in scan_callbacks
                                                 THEN "notify" ELSE "walk",
                                 ![scan_id].step = @ + 1,
                                 ![scan_id].results = @ \o info]
  /\ UNCHANGED <<running_scans, scan_callbacks, clock, firestore, tree, ret, stopped, rec, manager>>

\* The body of a loop iteration up to the increment: _process_directory /
\* _process_file, the result appended when there is one,
\* progress.processed_items += 1.  _notify_progress follows as a step of its
\* own when a callback is registered (without one it does nothing; a callback
\* is registered by start_scan only).  The entry and its item are each
\* computed once.
ProcessEntry(scan_id) ==
  /\ scan_id \in DOMAIN task
  /\ task[scan_id].pc = "entry"
  /\ \E entry \in {StepsOf(scan_id)[task[scan_id].step]} :
       \E info \in {IF entry.kind = "directory" THEN ProcessDirectory(entry.path)
                    ELSE ProcessFile(entry.path)} :
         /\ progress' = [progress EXCEPT ![scan_id].processed_items = @ + 1]
         /\ task' = [task EXCEPT ![scan_id].pc = IF scan_id \in scan_callbacks
                                                 THEN "notify" ELSE "walk",
                                 ![scan_id].step = @ + 1,
                                 ![scan_id].results = @ \o info]
  /\ UNCHANGED <<running_scans, scan_callbacks, clock, firestore, tree, ret, stopped, rec, manager>>

\* A faulty notification in which an exception of the callback leaves the
\* walk (what C33 rules out): it is caught by the walk's handler, which
\* records a scan error and returns the results so far.
NotifyProgressFatal(scan_id) ==
  /\ scan_id \in DOMAIN task
  /\ task[scan_id].pc = "notify"
  /\ \E raised \in {(scan_id \in scan_callbacks) /\ CallbackRaises(progress[scan_id])} :
       /\ progress' = [progress EXCEPT
                         ![scan_id] = IF raised
                                      THEN AddScanError(@, "scan_error",
                                                        task[scan_id].library_path)
                                      ELSE @]
       /\ task' = [task EXCEPT ![scan_id].pc = IF raised THEN "returned" ELSE "walk",
                               ![scan_id].seen = Notify(scan_id, @, progress[scan_id])]
  /\ UNCHANGED <<running_scans, scan_callbacks, clock, firestore, tree, ret, stopped, rec, manager>>

\* _notify_progress(scan_id, progress) after the increment: the callback, when
\* it is still registered, sees the record as it is by now
NotifyProgress(scan_id) ==
  /\ scan_id \in DOMAIN task
  /\ task[scan_id].pc = "notify"
  /\ task' = [task EXCEPT ![scan_id].pc = "walk",
                          ![scan_id].seen = Notify(scan_id, @, progress[scan_id])]
  /\ UNCHANGED <<running_scans, progress, scan_callbacks, clock, firestore, tree, ret,
                 stopped, rec, manager>>

\* "if user_id:" for an Optional[str]
UserGiven(user_id) == ~IsNone(user_id) /\ user_id[1] # <<>>

\* _run_scan_async, "Filter out duplicates": the paths of the report's
\* difference entries, plus the path of every result whose path is a key of the
\* Firestore lookup for its type; the results whose path is none of these.
FilterDuplicates(scan_results, duplicate_report, fs) ==
  LET existing_files == GetExistingFilePaths(fs)
      existing_dirs  == GetExistingDirectoryPaths(fs)
      duplicate_paths ==
        {duplicate_report.differences[i].path : i \in DOMAIN duplicate_report.differences}
        \cup {scan_results[i].path : i \in
                {j \in DOMAIN scan_results :
                   \/ /\ scan_results[j].type = "file"
                      /\ scan_results[j].path \in DOMAIN existing_files
                   \/ /\ scan_results[j].type = "directory"
                      /\ scan_results[j].path \in DOMAIN existing_dirs}}
  IN  SelectSeq(scan_results, LAMBDA r : r.path \notin duplicate_paths)

\* A faulty end of the scan that keeps the counts taken before the duplicate
\* filter (what C31 rules out).
FinishCountsBeforeFilter(scan_id) ==
  /\ scan_id \in DOMAIN task
  /\ task[scan_id].pc = "returned"
  /\ LET t == task[scan_id]
         scan_results == t.results
         checked == t.check_duplicates /\ UserGiven(t.user_id)
         duplicate_report ==
           IF ~IsNone(t.existing_files) \/ ~IsNone(t.existing_directories)
           THEN CheckDuplicatesWithExisting(scan_results, t.library_path,
                                            t.existing_files, t.existing_directories)
           ELSE CheckDuplicates(scan_results, t.library_path, firestore)
         final == IF checked /\ duplicate_report.duplicatesFound > 0
                  THEN FilterDuplicates(scan_results, duplicate_report, firestore)
                  ELSE scan_results
     IN  progress' = [progress EXCEPT
                        ![scan_id].scan_results = final,
                        ![scan_id].files_found = CountType(scan_results, "file"),
                        ![scan_id].directories_found =
                           CountType(scan_results, "directory"),
                        ![scan_id].duplicate_report =
                           IF checked THEN Some(duplicate_report) ELSE @,
                        ![scan_id].status = "completed",
                        ![scan_id].end_time = Some(clock)]
  /\ task' = [task EXCEPT ![scan_id].pc = "done",
                          ![scan_id].seen = Notify(scan_id, @, progress'[scan_id])]
  /\ UNCHANGED <<running_scans, scan_callbacks, clock, firestore, tree, ret, stopped, rec, manager>>

\* A faulty end of the scan that stores no results for a scan that was
\* cancelled (what C26 rules out).
FinishDropsCancelled(scan_id) ==
  /\ scan_id \in DOMAIN task
  /\ task[scan_id].pc = "returned"
  /\ LET t == task[scan_id]
         scan_results == IF progress[scan_id].status = "cancelled" THEN <<>>
                         ELSE t.results
         checked == t.check_duplicates /\ UserGiven(t.user_id)
         duplicate_report ==
           IF ~IsNone(t.existing_files) \/ ~IsNone(t.existing_directories)
           THEN CheckDuplicatesWithExisting(scan_results, t.library_path,
                                            t.existing_files, t.existing_directories)
           ELSE CheckDuplicates(scan_results, t.library_path, firestore)
         final == IF checked /\ duplicate_report.duplicatesFound > 0
                  THEN FilterDuplicates(scan_results, duplicate_report, firestore)
                  ELSE scan_results
     IN  progress' = [progress EXCEPT
                        ![scan_id].scan_results = final,
                        ![scan_id].files_found = CountType(final, "file"),
                        ![scan_id].directories_found = CountType(final, "directory"),
                        ![scan_id].duplicate_report =
                           IF checked THEN Some(duplicate_report) ELSE @,
                        ![scan_id].status = "completed",
                        ![scan_id].end_time = Some(clock)]
  /\ task' = [task EXCEPT ![scan_id].pc = "done",
                          ![scan_id].seen = Notify(scan_id, @, progress'[scan_id])]
  /\ UNCHANGED <<running_scans, scan_callbacks, clock, firestore, tree, ret, stopped, rec, manager>>

\* A faulty end of the scan that checks duplicates for every named user,
\* requested or not (what C22 rules out).
FinishAlwaysChecks(scan_id) ==
  /\ scan_id \in DOMAIN task
  /\ task[scan_id].pc = "returned"
  /\ LET t == task[scan_id]
         scan_results == t.results
         checked == UserGiven(t.user_id)
         duplicate_report ==
           IF ~IsNone(t.existing_files) \/ ~IsNone(t.existing_directories)
           THEN CheckDuplicatesWithExisting(scan_results, t.library_path,
                                            t.existing_files, t.existing_directories)
           ELSE CheckDuplicates(scan_results, t.library_path, firestore)
         final == IF checked /\ duplicate_report.duplicatesFound > 0
                  THEN FilterDuplicates(scan_results, duplicate_report, firestore)
                  ELSE scan_results
     IN  progress' = [progress EXCEPT
                        ![scan_id].scan_results = final,
                        ![scan_id].files_found = CountType(final, "file"),
                        ![scan_id].directories_found = CountType(final, "directory"),
                        ![scan_id].duplicate_report =
                           IF checked THEN Some(duplicate_report) ELSE @,
                        ![scan_id].status = "completed",
                        ![scan_id].end_time = Some(clock)]
  /\ task' = [task EXCEPT ![scan_id].pc = "done",
                          ![scan_id].seen = Notify(scan_id, @, progress'[scan_id])]
  /\ UNCHANGED <<running_scans, scan_callbacks, clock, firestore, tree, ret, stopped, rec, manager>>

\* A faulty end of the scan that checks duplicates whenever requested, for a
\* named user or for none (what C36 rules out).
FinishChecksForNobody(scan_id) ==
  /\ scan_id \in DOMAIN task
  /\ task[scan_id].pc = "returned"
  /\ LET t == task[scan_id]
         scan_results == t.results
         checked == t.check_duplicates
         duplicate_report ==
           IF ~IsNone(t.existing_files) \/ ~IsNone(t.existing_directories)
           THEN CheckDuplicatesWithExisting(scan_results, t.library_path,
                                            t.existing_files, t.existing_directories)
           ELSE CheckDuplicates(scan_results, t.library_path, firestore)
         final == IF checked /\ duplicate_report.duplicatesFound > 0
                  THEN FilterDuplicates(scan_results, duplicate_report, firestore)
                  ELSE scan_results
     IN  progress' = [progress EXCEPT
                        ![scan_id].scan_results = final,
                        ![scan_id].files_found = CountType(final, "file"),
                        ![scan_id].directories_found = CountType(final, "directory"),
                        ![scan_id].duplicate_report =
                           IF checked THEN Some(duplicate_report) ELSE @,
                        ![scan_id].status = "completed",
                        ![scan_id].end_time = Some(clock)]
  /\ task' = [task EXCEPT ![scan_id].pc = "done",
                          ![scan_id].seen = Notify(scan_id, @, progress'[scan_id])]
  /\ UNCHANGED <<running_scans, scan_callbacks, clock, firestore, tree, ret, stopped, rec, manager>>

\* _run_scan_async after the process pass returned, up to the end of the
\* coroutine: one uninterrupted run of the event loop (the reconciliation
\* coroutines never suspend).  Results and counts are stored, duplicates are
\* checked and filtered when requested, then status and end_time are set.
Finish(scan_id) ==
  /\ scan_id \in DOMAIN task
  /\ task[scan_id].pc = "returned"
  /\ LET t == task[scan_id]
         scan_results == t.results
         checked == t.check_duplicates /\ UserGiven(t.user_id)
         duplicate_report ==
           IF ~IsNone(t.existing_files) \/ ~IsNone(t.existing_directories)
           THEN CheckDuplicatesWithExisting(scan_results, t.library_path,
                                            t.existing_files, t.existing_directories)
           ELSE CheckDuplicates(scan_results, t.library_path, firestore)
         final == IF checked /\ duplicate_report.duplicatesFound > 0
                  THEN FilterDuplicates(scan_results, duplicate_report, firestore)
                  ELSE scan_results
     IN  progress' = [progress EXCEPT
                        ![scan_id].scan_results = final,
                        ![scan_id].files_found = CountType(final, "file"),
                        ![scan_id].directories_found = CountType(final, "directory"),
                        ![scan_id].duplicate_report =
                           IF checked THEN Some(duplicate_report) ELSE @,
                        ![scan_id].status = "completed",
                        ![scan_id].end_time = Some(clock)]
  /\ task' = [task EXCEPT ![scan_id].pc = "done",
                          ![scan_id].seen = Notify(scan_id, @, progress'[scan_id])]
  /\ UNCHANGED <<running_scans, scan_callbacks, clock, firestore, tree, ret, stopped, rec, manager>>

----------------------------------------------------------------------------
(* Specification Spec: the registry and the scans' life cycle.  Scans are    *)
(* started without duplicate checking; callers stop and clean up at any     *)
(* moment while the background tasks advance.                                *)

NoFirestore == [initialized |-> FALSE, mediaFiles |-> <<>>, mediaDirectories |-> <<>>]

InitScanner ==
  /\ InitManager
  /\ running_scans = {}
  /\ progress = <<>>
  /\ scan_callbacks = {}
  /\ task = <<>>
  /\ clock = 1
  /\ tree = "initial"
  /\ ret = NoCall
  /\ stopped = {}

Init ==
  /\ InitScanner
  /\ firestore = NoFirestore
  /\ rec = RecIdle

\* _run_scan_async resumes from "await self._scan_directory_async(...)" with
\* the exception of the worker: the except branch sets status "error" and
\* end_time and records a scan_error; the final callback follows.
ScanFailed(scan_id) ==
  /\ scan_id \in DOMAIN task
  /\ task[scan_id].pc = "raised"
  /\ progress' = [progress EXCEPT
                    ![scan_id] = AddScanError(
                       [@ EXCEPT !.status = "error", !.end_time = Some(clock)],
                       "scan_error", task[scan_id].library_path)]
  /\ task' = [task EXCEPT ![scan_id].pc = "done",
                          ![scan_id].seen = Notify(scan_id, @, progress'[scan_id])]
  /\ UNCHANGED <<running_scans, scan_callbacks, clock, firestore, tree, ret, stopped, rec, manager>>

\* The steps of the background task of one scan: those the coroutine
\* _run_scan_async takes on the event loop, when the loop is free, and those
\* a worker thread of the executor takes, at any moment.
Background(scan_id) ==
  \/ /\ LoopFree
     /\ \/ RunScanAsync(scan_id)
        \/ CountItems(scan_id)
        \/ ScanFailed(scan_id)
        \/ Finish(scan_id)
  \/ CountItemsAsync(scan_id)
  \/ ScanStart(scan_id)
  \/ WalkCheck(scan_id)
  \/ SetCurrentPath(scan_id)
  \/ ProcessEntry(scan_id)
  \/ NotifyProgress(scan_id)

\* scan ids callers may name: those handed out, and one that never was
KnownIds == 1..(Len(progress) + 1)

Next ==
  \/ /\ Len(progress) < MaxScans
     /\ \E library_path \in {LibA, LibB} :
          StartScan(library_path, FALSE, FALSE, FALSE, None, None, None)
  \/ \E scan_id \in KnownIds : StopScan(scan_id)
  \/ \E scan_id \in KnownIds : CleanupScan(scan_id)
  \/ \E scan_id \in KnownIds : Background(scan_id)

Spec == Init /\ [][Next]_vars

----------------------------------------------------------------------------
(* Specification SpecFair: the life cycle of Spec with a background task    *)
(* that keeps being scheduled.  The event loop runs every task that is      *)
(* ready and the executor runs every walk submitted to it, so a step of a   *)
(* scan's task that stays enabled is eventually taken.                      *)

MaxFairScans == 1   \* scans started in one run of SpecFair

NextFair ==
  \/ /\ Len(progress) < MaxFairScans
     /\ \E library_path \in {LibA, LibB} :
          StartScan(library_path, FALSE, FALSE, FALSE, None, None, None)
  \/ \E scan_id \in KnownIds : StopScan(scan_id)
  \/ \E scan_id \in KnownIds : CleanupScan(scan_id)
  \/ \E scan_id \in KnownIds : Background(scan_id)

SpecFair ==
  /\ Init
  /\ [][NextFair]_vars
  /\ \A scan_id \in 1..MaxFairScans : WF_vars(Background(scan_id))

----------------------------------------------------------------------------
(* Specification SpecCallers: the life cycle of Spec with callers that also  *)
(* poll get_scan_status and ask for get_scan_results at any moment.          *)

MaxCallerScans == 2   \* scans started in one run of SpecCallers

NextCallers ==
  \/ /\ LoopFree
     /\ Len(progress) < MaxCallerScans
     /\ \E library_path \in {LibA, LibB} :
          StartScan(library_path, FALSE, FALSE, FALSE, None, None, None)
  \/ LoopFree /\ \E scan_id \in KnownIds : StopScan(scan_id)
  \/ LoopFree /\ \E scan_id \in KnownIds : CleanupScan(scan_id)
  \/ \E scan_id \in KnownIds : GetStatus(scan_id)
  \/ LoopFree /\ \E scan_id \in KnownIds : GetResults(scan_id)
  \/ \E scan_id \in KnownIds : Background(scan_id)

SpecCallers == Init /\ [][NextCallers]_vars

----------------------------------------------------------------------------
(* Specification SpecNotify: scans of LibA started with a progress callback, *)
(* polled, stopped and cleaned up by id at any moment.                      *)

MaxNotifyScans == 2   \* scans started in one run of SpecNotify

NextNotify ==
  \/ /\ LoopFree
     /\ Len(progress) < MaxNotifyScans
     /\ StartScan(LibA, TRUE, FALSE, FALSE, None, None, None)
  \/ LoopFree /\ \E scan_id \in KnownIds : StopScan(scan_id)
  \/ LoopFree /\ \E scan_id \in KnownIds : CleanupScan(scan_id)
  \/ \E scan_id \in KnownIds : GetStatus(scan_id)
  \/ \E scan_id \in KnownIds : Background(scan_id)

SpecNotify == Init /\ [][NextNotify]_vars

----------------------------------------------------------------------------
(* Specification SpecCeiling: more scans than the ceiling admits, on an      *)
(* empty library, stopped and cleaned up by id at any moment.                *)

\* the start_scan call of SpecCeiling, with a callback registered
StartCeiling == StartScan(LibC, TRUE, FALSE, FALSE, None, None, None)

\* start_scan is called while fewer than MaxCeilingScans scans were admitted,
\* and at any moment at the ceiling, where it admits none
NextCeiling ==
  \/ /\ \/ Len(progress) < MaxCeilingScans
        \/ Cardinality(ActiveScans) >= max_concurrent_scans
     /\ StartCeiling
  \/ \E scan_id \in KnownIds : StopScan(scan_id)
  \/ \E scan_id \in KnownIds : CleanupScan(scan_id)
  \/ \E scan_id \in KnownIds : Background(scan_id)

SpecCeiling == Init /\ [][NextCeiling]_vars

----------------------------------------------------------------------------
(* Specification SpecSweep: the age-based sweep.  Scans of an empty library  *)
(* end or are stopped at some clock reading; the clock advances by a second  *)
(* or by an hour; the sweep runs with max age 0 (as at shutdown) or 1 hour.  *)

MaxSweepScans == 2     \* scans started in one run of SpecSweep
MaxSweepClock == 3602  \* last clock reading of SpecSweep

\* an hour passes
Pass ==
  /\ clock + 3600 <= MaxSweepClock
  /\ clock' = clock + 3600
  /\ UNCHANGED <<running_scans, progress, scan_callbacks, task, firestore, tree, ret,
                 stopped, rec, manager>>

\* max_age_hours of the sweeps: 0 (main.py, at shutdown) and 1
SweepAges == {0, 1}

NextSweep ==
  \/ /\ LoopFree
     /\ Len(progress) < MaxSweepScans
     /\ StartScan(LibC, TRUE, FALSE, FALSE, None, None, None)
  \/ LoopFree /\ \E scan_id \in KnownIds : StopScan(scan_id)
  \/ LoopFree /\ \E scan_id \in KnownIds : CleanupScan(scan_id)
  \/ LoopFree /\ \E max_age_hours \in SweepAges : CleanupCompletedScans(max_age_hours)
  \/ \E scan_id \in KnownIds : GetStatus(scan_id)
  \/ Tick
  \/ Pass
  \/ \E scan_id \in KnownIds : Background(scan_id)

SpecSweep == Init /\ [][NextSweep]_vars

----------------------------------------------------------------------------
(* Specification SpecTree: scans of a file system that changes between the   *)
(* passes of a scan: a media file appears, or the library roots disappear.   *)

MaxTreeScans == 2   \* scans started in one run of SpecTree

\* no process pass is inside its walk (the changes modelled fall between passes)
NoWalkRunning ==
  \A id \in DOMAIN task : task[id].pc \notin {"walk", "root", "entry", "notify"}

\* a media file k.mp4 is added to /a/d and to /b
Grow ==
  /\ tree = "initial"
  /\ NoWalkRunning
  /\ tree' = "grown"
  /\ UNCHANGED <<running_scans, progress, scan_callbacks, task, clock, firestore,
                 ret, stopped, rec, manager>>

\* the library roots are removed (unmounted)
Vanish ==
  /\ tree # "gone"
  /\ NoWalkRunning
  /\ tree' = "gone"
  /\ UNCHANGED <<running_scans, progress, scan_callbacks, task, clock, firestore,
                 ret, stopped, rec, manager>>

NextTree ==
  \/ /\ Len(progress) < MaxTreeScans
     /\ \E library_path \in {LibA, LibB} :
          StartScan(library_path, FALSE, FALSE, FALSE, None, None, None)
  \/ \E scan_id \in KnownIds : Background(scan_id)
  \/ Grow
  \/ Vanish

SpecTree == Init /\ [][NextTree]_vars

----------------------------------------------------------------------------
(* Specification SpecDepth: scans that run undisturbed, of the small         *)
(* libraries and of the library that is deeper than max_scan_depth.          *)

MaxDepthScans == 2   \* scans started in one run of SpecDepth

NextDepth ==
  \/ /\ Len(progress) < MaxDepthScans
     /\ \E library_path \in {LibA, LibB, LibE} :
          StartScan(library_path, FALSE, FALSE, FALSE, None, None, None)
  \/ \E scan_id \in KnownIds : Background(scan_id)

SpecDepth == Init /\ [][NextDepth]_vars

----------------------------------------------------------------------------
(* Specification SpecDup: one scan of LibA, with or without duplicate        *)
(* checking, against an inventory the caller supplies (offline) or           *)
(* Firestore holds (online).                                                 *)

MaxDupScans == 1   \* scans started in one run of SpecDup

DupD == Join(LibA, NameD)
DupF == Join(LibA, NameF)
DupG == Join(DupD, NameG)

\* the existing_files argument: absent, empty, an identical record of f.mp4, one
\* of another size, one of another library, one whose metadata is None
DupExistingFiles ==
  {None, Some(<<>>),
   Some(<<Existing(LibA, DupF, Some("unknown"), None)>>),
   Some(<<Existing(LibA, DupF, Some("unknown"), SizeOnly(1))>>),
   Some(<<Existing(LibA, DupF, Some("unknown"), SizeOnly(2))>>),
   Some(<<Existing(LibB, DupF, Some("unknown"), SizeOnly(1))>>)}

\* the existing_directories argument: absent, or an identical record of d
DupExistingDirectories ==
  {None, Some(<<Existing(LibA, DupD, Some("unknown"), SizeOnly(1))>>)}

\* Firestore: not initialized (the scanner never initializes its own service),
\* or initialized and holding a document of g.MKV
DupFirestores ==
  {NoFirestore,
   [initialized |-> TRUE,
    mediaFiles |-> <<Existing(LibA, DupG, Some("unknown"), SizeOnly(1))>>,
    mediaDirectories |-> <<>>]}

InitDup ==
  /\ InitScanner
  /\ firestore \in DupFirestores
  /\ rec = RecIdle

\* the check_duplicates and user_id arguments: checking requested or not, by a
\* named user, by none, or by the empty string
DupUsers == {None, Some(<<>>), Some(<<"u">>)}

NextDup ==
  \/ /\ Len(progress) < MaxDupScans
     /\ \E existing_files \in DupExistingFiles :
          \E existing_directories \in DupExistingDirectories :
            \E check_duplicates \in BOOLEAN, user_id \in DupUsers :
              StartScan(LibA, FALSE, FALSE, check_duplicates, user_id,
                        existing_files, existing_directories)
  \/ \E scan_id \in KnownIds : StopScan(scan_id)
  \/ \E scan_id \in KnownIds : Background(scan_id)

SpecDup == InitDup /\ [][NextDup]_vars

----------------------------------------------------------------------------
(* AsyncTaskManager (services/task_manager.py): submit_task creates the Task *)
(* and the asyncio task that runs _run_task; _run_task runs the function in  *)
(* the thread pool and records its outcome; cancel_task cancels the asyncio  *)
(* task; cleanup_old_tasks deletes the old Task records.  Specification      *)
(* SpecTasks: tasks are submitted, cancelled and cleaned up at any moment;   *)
(* the event loop runs every coroutine that can take a step, and every       *)
(* function handed to the pool ends.                                         *)

MaxTasks == 2   \* tasks submitted in one run of SpecTasks

\* Task(task_id=..., task_type=..., metadata=...): the dataclass defaults.
\* registered: the id is a key of self.tasks (the Task object outlives its
\* deletion from the dict, since _run_task holds a reference to it)
NewManagedTask ==
  [status |-> "pending", progress |-> 0, result |-> None, error |-> None,
   start_time |-> None, end_time |-> None, registered |-> TRUE]

\* asyncio.create_task(self._run_task(task_id, func, progress_callback, ...)):
\* the coroutine has not run yet, no cancellation is requested, nothing was
\* handed to the pool
NewAsyncTask(progress_callback) ==
  [pc |-> "created", must_cancel |-> FALSE, future |-> "none",
   progress_callback |-> progress_callback]

\* the progress a function reports through its progress callback
ReportedProgress == 50

\* asyncio.Task.done()
Done(task_id) == async_tasks[task_id].pc = "done"

\* task ids callers may name: those handed out, and one that never was
KnownTaskIds == 1..(Len(tasks) + 1)

\* the statuses in which a task has ended
TerminalTask == {"completed", "failed", "cancelled"}

\* submit_task: the Task is stored, the asyncio task is created and stored
\* under the same id, the id is returned
SubmitTask(progress_callback) ==
  LET task_id == Len(tasks) + 1
  IN  /\ tasks' = Append(tasks, NewManagedTask)
      /\ async_tasks' = Append(async_tasks, NewAsyncTask(progress_callback))
      /\ running_tasks' = running_tasks \cup {task_id}
      /\ ret' = Call("submit_task", task_id, FALSE, TRUE)
      /\ UNCHANGED <<running_scans, progress, scan_callbacks, task, clock, firestore, tree,
                     stopped, rec>>

\* The first step of the asyncio task.  When its cancellation was requested
\* before, CancelledError is thrown into the coroutine that has not started:
\* no line of _run_task runs, the try statement is never entered, and the
\* asyncio task is done.  So it is when self.tasks[task_id] raises KeyError,
\* before the try statement.  Otherwise _run_task runs up to its await:
\* status "running", start_time, the function handed to the thread pool.
RunTaskStart(task_id) ==
  /\ task_id \in DOMAIN async_tasks
  /\ async_tasks[task_id].pc = "created"
  /\ IF async_tasks[task_id].must_cancel \/ ~tasks[task_id].registered
     THEN /\ async_tasks' = [async_tasks EXCEPT ![task_id].pc = "done"]
          /\ UNCHANGED tasks
     ELSE /\ tasks' = [tasks EXCEPT ![task_id].status = "running",
                                    ![task_id].start_time = Some(clock)]
          /\ async_tasks' = [async_tasks EXCEPT ![task_id].pc = "awaiting",
                                                ![task_id].future = "running"]
  /\ UNCHANGED <<running_scans, progress, scan_callbacks, task, clock, firestore, tree,
                 ret, stopped, rec, running_tasks>>

\* "lambda: func(*args, **kwargs)" in a pool thread: the function returns or
\* raises, whether or not the asyncio task still waits for it
FuncEnds(task_id) ==
  /\ task_id \in DOMAIN async_tasks
  /\ async_tasks[task_id].future = "running"
  /\ \E outcome \in {"returned", "raised"} :
       async_tasks' = [async_tasks EXCEPT ![task_id].future = outcome]
  /\ UNCHANGED <<running_scans, progress, scan_callbacks, task, clock, firestore, tree,
                 ret, stopped, rec, tasks, running_tasks>>

\* progress_wrapper, called by the function in its pool thread when a
\* progress callback was given: task.progress = progress, whatever the
\* status of the task is by then
FuncReports(task_id) ==
  /\ task_id \in DOMAIN async_tasks
  /\ async_tasks[task_id].future = "running"
  /\ async_tasks[task_id].progress_callback
  /\ tasks[task_id].progress # ReportedProgress
  /\ tasks' = [tasks EXCEPT ![task_id].progress = ReportedProgress]
  /\ UNCHANGED <<running_scans, progress, scan_callbacks, task, clock, firestore, tree,
                 ret, stopped, rec, running_tasks, async_tasks>>

\* A faulty end of _run_task whose "except" also catches the cancellation and
\* records the task as failed (what C38 rules out).
RunTaskResumeCatchesCancel(task_id) ==
  /\ task_id \in DOMAIN async_tasks
  /\ async_tasks[task_id].pc = "awaiting"
  /\ async_tasks[task_id].must_cancel \/ async_tasks[task_id].future \in {"returned", "raised"}
  /\ tasks' = [tasks EXCEPT
                 ![task_id] =
                    IF async_tasks[task_id].must_cancel
                    THEN [@ EXCEPT !.error = Some("e"), !.status = "failed",
                                   !.end_time = Some(clock)]
                    ELSE IF async_tasks[task_id].future = "returned"
                    THEN [@ EXCEPT !.result = Some("r"), !.status = "completed",
                                   !.progress = 100, !.end_time = Some(clock)]
                    ELSE [@ EXCEPT !.error = Some("e"), !.status = "failed",
                                   !.end_time = Some(clock)]]
  /\ running_tasks' = running_tasks \ {task_id}
  /\ async_tasks' = [async_tasks EXCEPT ![task_id].pc = "done"]
  /\ UNCHANGED <<running_scans, progress, scan_callbacks, task, clock, firestore, tree,
                 ret, stopped, rec>>

\* _run_task resumes from "await loop.run_in_executor(...)".  A requested
\* cancellation raises CancelledError there, whatever the function did:
\* "except Exception" does not catch it, "finally" runs.  Otherwise the result
\* is stored with status "completed", or the exception with status "failed".
\* "finally": end_time, and the id leaves running_tasks.
RunTaskResume(task_id) ==
  /\ task_id \in DOMAIN async_tasks
  /\ async_tasks[task_id].pc = "awaiting"
  /\ async_tasks[task_id].must_cancel \/ async_tasks[task_id].future \in {"returned", "raised"}
  /\ tasks' = [tasks EXCEPT
                 ![task_id] =
                    IF async_tasks[task_id].must_cancel
                    THEN [@ EXCEPT !.end_time = Some(clock)]
                    ELSE IF async_tasks[task_id].future = "returned"
                    THEN [@ EXCEPT !.result = Some("r"), !.status = "completed",
                                   !.progress = 100, !.end_time = Some(clock)]
                    ELSE [@ EXCEPT !.error = Some("e"), !.status = "failed",
                                   !.end_time = Some(clock)]]
  /\ running_tasks' = running_tasks \ {task_id}
  /\ async_tasks' = [async_tasks EXCEPT ![task_id].pc = "done"]
  /\ UNCHANGED <<running_scans, progress, scan_callbacks, task, clock, firestore, tree,
                 ret, stopped, rec>>

\* cancel_task: False for an id that is not in running_tasks and for an
\* asyncio task that is done; otherwise async_task.cancel(), then
\* self.tasks[task_id], which raises KeyError when the Task was deleted, then
\* status "cancelled", end_time, True
CancelTask(task_id) ==
  /\ IF task_id \in running_tasks /\ ~Done(task_id)
     THEN /\ async_tasks' = [async_tasks EXCEPT ![task_id].must_cancel = TRUE]
          /\ IF tasks[task_id].registered
             THEN /\ tasks' = [tasks EXCEPT ![task_id].status = "cancelled",
                                            ![task_id].end_time = Some(clock)]
                  /\ ret' = Call("cancel_task", task_id, FALSE, TRUE)
             ELSE /\ ret' = Call("cancel_task", task_id, TRUE, FALSE)
                  /\ UNCHANGED tasks
     ELSE /\ ret' = Call("cancel_task", task_id, FALSE, FALSE)
          /\ UNCHANGED <<tasks, async_tasks>>
  /\ UNCHANGED <<running_scans, progress, scan_callbacks, task, clock, firestore, tree,
                 stopped, rec, running_tasks>>

\* the max_age_hours handed to cleanup_old_tasks: main.py's 0, and the default
TaskAges == {0, 24}

\* cleanup_old_tasks: the Task of every id whose status is terminal, whose
\* end_time is truthy and older than max_age_hours leaves self.tasks;
\* running_tasks is not touched
CleanupOldTasks(max_age_hours) ==
  LET to_remove ==
        {task_id \in DOMAIN tasks :
           /\ tasks[task_id].registered
           /\ tasks[task_id].status \in TerminalTask
           /\ ~IsNone(tasks[task_id].end_time)
           /\ tasks[task_id].end_time[1] # 0
           /\ clock - tasks[task_id].end_time[1] > max_age_hours * 3600}
  IN  /\ tasks' = [task_id \in DOMAIN tasks |->
                     IF task_id \in to_remove
                     THEN [tasks[task_id] EXCEPT !.registered = FALSE]
                     ELSE tasks[task_id]]
      /\ ret' = Call("cleanup_old_tasks", 0, FALSE, FALSE)   \* it returns nothing
      /\ UNCHANGED <<running_scans, progress, scan_callbacks, task, clock, firestore,
                     tree, stopped, rec, running_tasks, async_tasks>>

\* the steps of the asyncio task of one submitted task
RunTask(task_id) == RunTaskStart(task_id) \/ RunTaskResume(task_id)

NextTasks ==
  \/ /\ Len(tasks) < MaxTasks
     /\ \E progress_callback \in BOOLEAN : SubmitTask(progress_callback)
  \/ \E task_id \in KnownTaskIds : CancelTask(task_id)
  \/ \E max_age_hours \in TaskAges : CleanupOldTasks(max_age_hours)
  \/ Tick
  \/ \E task_id \in KnownTaskIds : RunTask(task_id)
  \/ \E task_id \in KnownTaskIds : FuncReports(task_id)
  \/ \E task_id \in KnownTaskIds : FuncEnds(task_id)

SpecTasks ==
  /\ Init
  /\ [][NextTasks]_vars
  /\ \A task_id \in 1..MaxTasks : WF_vars(RunTask(task_id)) /\ WF_vars(FuncEnds(task_id))

----------------------------------------------------------------------------
(* Properties of the reconciler (specification SpecRec) *)

OfflineReport == rec.offline[1]
OnlineReport == rec.online[1]

\* the existing records an item of this type is looked up among
ExistingOfType(type) ==
  IF type = "file" THEN rec.existing_files
  ELSE IF type = "directory" THEN rec.existing_directories
  ELSE <<>>

AllExisting == rec.existing_files \o rec.existing_directories

Reconcilable == {i \in DOMAIN rec.scan_results : rec.scan_results[i].type \in {"file", "directory"}}

\* the reported difference entries of the discovered item i
EntriesOf(report, i) ==
  SelectSeq(report.differences,
            LAMBDA d : d.path = rec.scan_results[i].path /\ d.type = rec.scan_results[i].type)

\* items for which every existing record has the item's path under another library root
OtherRootOnly ==
  {i \in Reconcilable :
     \A k \in DOMAIN AllExisting :
       /\ AllExisting[k].path = rec.scan_results[i].path
       /\ AllExisting[k].libraryPath # rec.library_path}

\* C6: a discovered item is never a duplicate on account of existing records that
\* have its path under a different library root: an item that meets only such
\* records is counted as new and gets no difference entry, and when that is so
\* for every item, duplicatesFound is 0 and every file/directory item is new.
C6_CompositeKeyInvariant ==
  rec.pc # "input" =>
    /\ OfflineReport.duplicatesFound <= Cardinality(Reconcilable \ OtherRootOnly)
    /\ OfflineReport.newItems >= Cardinality(OtherRootOnly)
    /\ \A i \in OtherRootOnly : EntriesOf(OfflineReport, i) = <<>>
    /\ OtherRootOnly = Reconcilable =>
         /\ OfflineReport.duplicatesFound = 0
         /\ OfflineReport.newItems = Cardinality(Reconcilable)

\* C6 witness: /x was found under /b while the inventory holds /x under /a only
C6_Witness ==
  /\ rec.pc = "offline"
  /\ rec.library_path = LibB
  /\ rec.scan_results = <<Item("file", PathX)>>
  /\ rec.existing_files # <<>>
  /\ OtherRootOnly = {1}
  /\ OfflineReport.duplicatesFound = 0
  /\ OfflineReport.newItems = 1

\* C8: online and offline reconciliation of the same items, root and inventory
\* return the same duplicatesFound, newItems and differences.
C8_OnlineEqualsOffline ==
  rec.pc = "done" =>
    /\ OnlineReport.duplicatesFound = OfflineReport.duplicatesFound
    /\ OnlineReport.newItems = OfflineReport.newItems
    /\ OnlineReport.differences = OfflineReport.differences

\* C9: duplicatesFound + newItems is the number of file/directory items, and
\* an empty item list gives 0, 0 and no differences whatever the inventory.
C9_Partition ==
  rec.pc # "input" =>
    /\ OfflineReport.duplicatesFound >= 0
    /\ OfflineReport.newItems >= 0
    /\ OfflineReport.duplicatesFound + OfflineReport.newItems = Cardinality(Reconcilable)
    /\ rec.scan_results = <<>> =>
         /\ OfflineReport.duplicatesFound = 0
         /\ OfflineReport.newItems = 0
         /\ OfflineReport.differences = <<>>

\* a batch of a file and a directory was reconciled against an inventory that
\* holds a record of the file and none of the directory: one duplicate, one
\* new item
C9_Witness ==
  /\ rec.pc # "input"
  /\ Len(rec.scan_results) = 2
  /\ rec.existing_files # <<>>
  /\ \E i, j \in DOMAIN rec.scan_results :
       /\ rec.scan_results[i].type = "file"
       /\ rec.scan_results[j].type = "directory"
  /\ "error" \notin DOMAIN OfflineReport
  /\ OfflineReport.duplicatesFound = 1
  /\ OfflineReport.newItems = 1

\* the stored values _compare_item_data reads, absent keys as their defaults
\* (an item without readable metadata has neither a size nor a modified_time)
FieldValue(x, f) ==
  IF f = "media_type" THEN x.media_type
  ELSE IF IsNone(x.metadata) THEN None
  ELSE IF f = "size"
       THEN (IF "size" \in DOMAIN x.metadata[1] THEN x.metadata[1].size ELSE Some(0))
  ELSE (IF "modified_time" \in DOMAIN x.metadata[1] THEN x.metadata[1].modified_time
        ELSE None)

ComparedFields == <<"size", "modified_time", "media_type">>

\* the existing records of the item's type that have the item's composite key
MatchesOf(i) ==
  LET ex == ExistingOfType(rec.scan_results[i].type)
  IN  {k \in DOMAIN ex :
         ex[k].libraryPath \o <<":">> \o ex[k].path
           = rec.library_path \o <<":">> \o rec.scan_results[i].path}

\* the one the lookup table holds: a later record with the same key replaces an earlier
StoredMatch(i) ==
  LET ex == ExistingOfType(rec.scan_results[i].type)
  IN  ex[CHOOSE k \in MatchesOf(i) : \A j \in MatchesOf(i) : j <= k]

DifferingFields(i) ==
  SelectSeq(ComparedFields,
            LAMBDA f : FieldValue(rec.scan_results[i], f) # FieldValue(StoredMatch(i), f))

FieldNames(diffs) == [n \in DOMAIN diffs |-> diffs[n].field]

\* C10: every item whose composite key matches an existing record of its type
\* is counted in duplicatesFound, differing or not, and the fields reported
\* for it are exactly those of size, modified_time, media_type that differ.
C10_DuplicatesAndDifferences ==
  rec.pc # "input" =>
    /\ OfflineReport.duplicatesFound
         = Cardinality({i \in Reconcilable : MatchesOf(i) # {}})
    /\ \A i \in Reconcilable :
         IF MatchesOf(i) # {} /\ DifferingFields(i) # <<>>
         THEN /\ Len(EntriesOf(OfflineReport, i)) = 1
              /\ FieldNames(EntriesOf(OfflineReport, i)[1].differences) = DifferingFields(i)
         ELSE EntriesOf(OfflineReport, i) = <<>>

\* items that meet, among the existing records of their type, only records of
\* the scan's library root whose path is theirs up to letter case, but not theirs
CaseVariantOnly ==
  {i \in Reconcilable :
     LET ex == ExistingOfType(rec.scan_results[i].type)
     IN  /\ ex # <<>>
         /\ \A k \in DOMAIN ex :
              /\ ex[k].libraryPath = rec.library_path
              /\ ex[k].path # rec.scan_results[i].path
              /\ Lower(ex[k].path) = Lower(rec.scan_results[i].path)}

\* C11: an item whose path differs from the existing records' paths in letter
\* case only (same library root, same type) is counted as new, not as a
\* duplicate, and gets no difference entry.
C11_CaseSensitivePaths ==
  rec.pc # "input" =>
    /\ OfflineReport.duplicatesFound <= Cardinality(Reconcilable \ CaseVariantOnly)
    /\ OfflineReport.newItems >= Cardinality(CaseVariantOnly)
    /\ \A i \in CaseVariantOnly : EntriesOf(OfflineReport, i) = <<>>
    /\ CaseVariantOnly = Reconcilable =>
         /\ OfflineReport.duplicatesFound = 0
         /\ OfflineReport.newItems = Cardinality(Reconcilable)

\* C11 witness: /X was found under /a while the inventory holds /x under /a
C11_Witness ==
  /\ rec.pc = "offline"
  /\ rec.library_path = LibA
  /\ rec.scan_results = <<Item("file", PathUpperX)>>
  /\ rec.existing_files # <<>>
  /\ CaseVariantOnly = {1}
  /\ OfflineReport.duplicatesFound = 0
  /\ OfflineReport.newItems = 1

----------------------------------------------------------------------------
(* Properties of the scan life cycle (specifications Spec, SpecCeiling) *)

\* C1: every scan whose status is "completed" has processed_items equal to
\* total_items.
C1_CompletedProcessedAll ==
  \A id \in DOMAIN progress :
    progress[id].status = "completed"
      => progress[id].processed_items = progress[id].total_items

\* C2: a terminal status (completed, error, cancelled) never changes again.
C2_TerminalIsFinal ==
  [][\A id \in DOMAIN progress :
       progress[id].status \in Terminal
         => progress'[id].status = progress[id].status]_vars

\* C3: stop_scan on a registered scan in status "scanning" returns true, sets
\* the status to "cancelled" and sets end_time; stop_scan on a scan id that
\* was stopped before returns false and changes no record.
C3_StopScan ==
  [][\A id \in KnownIds :
       StopScan(id) =>
         /\ (id \in running_scans /\ progress[id].status = "scanning")
              => /\ ret' = Call("stop_scan", id, FALSE, TRUE)
                 /\ progress'[id].status = "cancelled"
                 /\ ~IsNone(progress'[id].end_time)
         /\ id \in stopped
              => /\ ret' = Call("stop_scan", id, FALSE, FALSE)
                 /\ progress' = progress]_vars

\* a second stop_scan on a stopped scan has returned false
C3_Witness ==
  \E id \in stopped :
    /\ ret = Call("stop_scan", id, FALSE, FALSE)
    /\ id \in running_scans
    /\ progress[id].status = "cancelled"
    /\ ~IsNone(progress[id].end_time)

\* C4: the registry never holds more than max_concurrent_scans records in
\* status "scanning", and a start_scan called with that many raises and adds
\* none.
C4_ConcurrencyCeiling ==
  /\ [](Cardinality(ActiveScans) <= max_concurrent_scans)
  /\ [][(StartCeiling /\ Cardinality(ActiveScans) >= max_concurrent_scans)
          => /\ ret' = Call("start_scan", 0, TRUE, FALSE)
             /\ running_scans' = running_scans]_vars

\* a start_scan at the ceiling has raised, after three scans were admitted
C4_Witness ==
  /\ ret = Call("start_scan", 0, TRUE, FALSE)
  /\ Cardinality(ActiveScans) = max_concurrent_scans
  /\ Len(progress) = 3

\* C5: a start_scan that raises leaves the registry and the callback table as
\* they were, creates no record, allocates no scan id and spawns no task.
C5_FailedStart ==
  [][(StartCeiling /\ ret'.raised)
       => UNCHANGED <<running_scans, scan_callbacks, progress, task>>]_vars

\* a start_scan has raised while records, callbacks and tasks exist
C5_Witness ==
  /\ ret = Call("start_scan", 0, TRUE, FALSE)
  /\ Cardinality(running_scans) = max_concurrent_scans
  /\ scan_callbacks = running_scans
  /\ Len(task) = max_concurrent_scans

\* C15: stop_scan returns false for a scan id that is not registered and for a
\* scan in a terminal status, and leaves the registry, the callback table and
\* every record as they were.
C15_StopScanRefuses ==
  [][\A id \in KnownIds :
       (StopScan(id) /\ (id \notin running_scans \/ progress[id].status \in Terminal))
         => /\ ret' = Call("stop_scan", id, FALSE, FALSE)
            /\ UNCHANGED <<running_scans, scan_callbacks, progress>>]_vars

\* stop_scan has returned false for a registered scan that completed by itself
C15_Witness ==
  \E id \in running_scans \ stopped :
    /\ ret = Call("stop_scan", id, FALSE, FALSE)
    /\ progress[id].status = "completed"

----------------------------------------------------------------------------
(* Property of duplicate filtering (specification SpecDup) *)

\* the reconciler that ran for a scan counts this item as a duplicate
ClassifiedDuplicate(scan_id, item) ==
  LET t == task[scan_id]
  IN  IF ~IsNone(t.existing_files) \/ ~IsNone(t.existing_directories)
      THEN CheckDuplicatesWithExisting(<<item>>, t.library_path, t.existing_files,
                                       t.existing_directories).duplicatesFound = 1
      ELSE CheckDuplicates(<<item>>, t.library_path, firestore).duplicatesFound = 1

PathsOf(results) == {results[i].path : i \in DOMAIN results}

\* C7: when duplicate checking ran and duplicatesFound > 0, the final
\* scan_results of the completed scan hold no item the reconciler classified
\* as a duplicate and every item it classified as new.
C7_FinalResultsAreTheNewItems ==
  \A id \in DOMAIN progress :
    (/\ progress[id].status = "completed"
     /\ ~IsNone(progress[id].duplicate_report)
     /\ progress[id].duplicate_report[1].duplicatesFound > 0)
      => \A i \in DOMAIN task[id].results :
           LET item == task[id].results[i]
           IN  ClassifiedDuplicate(id, item)
                 <=> item.path \notin PathsOf(progress[id].scan_results)

----------------------------------------------------------------------------
(* Properties of the progress counters (specifications Spec, SpecTree) *)

\* C17: total_items is assigned before the process pass processes any entry
\* (a scan with processed_items > 0 has the count of its library as
\* total_items), and it is assigned once: only in the step that resumes from
\* the count pass, which no scan takes twice.
C17_CountBeforeProcess ==
  /\ [](\A id \in DOMAIN progress :
         progress[id].processed_items > 0
           => progress[id].total_items = CountItemsSync(task[id].library_path))
  /\ [][\A id \in DOMAIN progress :
         /\ progress'[id].total_items # progress[id].total_items
              => task[id].pc = "counted" /\ task'[id].pc = "scan"
         /\ task[id].pc \notin {"created", "count", "counted"}
              => task'[id].pc \notin {"created", "count", "counted"}]_vars

\* the process pass has handled its first entry with total_items already 3
C17_Witness ==
  \E id \in DOMAIN progress :
    /\ progress[id].status = "scanning"
    /\ progress[id].processed_items = 1
    /\ progress[id].total_items = 3

\* the directories and media files the process pass of a scan has visited
Visited(id) ==
  {k \in 1..(task[id].step - 1) : StepsOf(id)[k].kind # "root"}

\* C18: processed_items never decreases; it is the number of directories and
\* media files the process pass has visited, one for each, whether the entry
\* yielded a result or not; it changes only in the step that handles an
\* entry, by one.
C18_ProcessedCountsVisits ==
  /\ [](\A id \in DOMAIN progress :
         progress[id].processed_items = Cardinality(Visited(id)))
  /\ [][\A id \in DOMAIN progress :
         /\ progress'[id].processed_items >= progress[id].processed_items
         /\ ProcessEntry(id)
              => progress'[id].processed_items = progress[id].processed_items + 1
         /\ progress'[id].processed_items # progress[id].processed_items
              => task[id].pc = "entry"]_vars

\* the scan of /b has visited f.mp4, whose metadata cannot be read: no
\* result, one processed item
C18_Witness ==
  \E id \in DOMAIN progress :
    /\ task[id].library_path = LibB
    /\ task[id].pc = "walk"
    /\ task[id].results = <<>>
    /\ progress[id].processed_items = 1

\* C19: every visited entry whose processing failed (its metadata could not be
\* read) has an entry in the scan's errors list.
C19_ItemFailuresRecorded ==
  \A id \in DOMAIN progress :
    \A k \in Visited(id) :
      StepsOf(id)[k].path \in Unreadable
        => \E n \in DOMAIN progress[id].errors :
             progress[id].errors[n].path = StepsOf(id)[k].path

\* C20: a scan whose walk met a fatal error (its root had disappeared when the
\* process pass went to list it) ends with status "error" and end_time set,
\* not with status "completed".
C20_FatalWalkErrorEndsInError ==
  \A id \in DOMAIN progress :
    (task[id].pc = "done" /\ ~task[id].root_found)
      => /\ progress[id].status = "error"
         /\ ~IsNone(progress[id].end_time)

\* C12: for every scan, 0 <= percentage <= 100, and percentage is 0 whenever
\* total_items is 0.
C12_PercentageInRange ==
  \A id \in DOMAIN progress :
    /\ 0 <= Percentage(progress[id])
    /\ Percentage(progress[id]) <= 10000
    /\ progress[id].total_items = 0 => Percentage(progress[id]) = 0

----------------------------------------------------------------------------
(* Properties of the sweep and of the registry (specification SpecSweep) *)

\* the record is in a terminal status and its end_time is more than
\* max_age_hours old
OlderThan(id, max_age_hours) ==
  /\ progress[id].status \in {"completed", "error", "cancelled"}
  /\ ~IsNone(progress[id].end_time)
  /\ clock - progress[id].end_time[1] > max_age_hours * 3600

\* C13: cleanup_completed_scans(max_age) removes exactly the registered
\* records that are terminal and older than max_age: never a record in status
\* "scanning", never a terminal record that is younger; it changes no record.
C13_SweepRemovesOldTerminal ==
  [][\A h \in SweepAges :
       CleanupCompletedScans(h) =>
         /\ running_scans' = {id \in running_scans : ~OlderThan(id, h)}
         /\ \A id \in running_scans :
              progress[id].status = "scanning" => id \in running_scans'
         /\ scan_callbacks' = scan_callbacks \cap running_scans'
         /\ progress' = progress]_vars

\* a sweep has run and left in the registry a terminal record that is exactly
\* one hour old, while a terminal record older than that is gone from it
C13_Witness ==
  /\ ret.op = "cleanup_completed_scans"
  /\ \E id \in running_scans :
       /\ progress[id].status \in Terminal
       /\ clock - progress[id].end_time[1] = 3600
  /\ \E id \in DOMAIN progress \ running_scans :
       /\ progress[id].status \in Terminal
       /\ clock - progress[id].end_time[1] > 3600

\* C16: a successful start_scan registers the record under the id it returns,
\* and a record leaves the registry only in a step of cleanup by id or of
\* the sweep: never in a step of start_scan, stop_scan, get_scan_status or
\* the background task.  So get_scan_status finds every record that was
\* handed out and not evicted: a call for a registered id goes on to build and
\* return the dictionary, and only a call for an unregistered id returns None.
C16_RegisteredUntilEvicted ==
  [][/\ Len(progress') > Len(progress) => Len(progress') \in running_scans'
     /\ \A id \in running_scans :
          id \notin running_scans'
            => \/ CleanupScan(id)
               \/ \E h \in SweepAges : CleanupCompletedScans(h)
     /\ \A id \in KnownIds :
          /\ GetScanStatus(id) => (ret'.pc = "done" <=> id \notin running_scans)
          /\ GetStatus(id) /\ ret'.pc = "done"
               => /\ ret'.returned <=> id \in running_scans
                  /\ IsNone(ret'.status_dict) <=> id \notin running_scans]_vars

\* get_scan_status has returned the record of a scan that ended an hour ago
\* or more, while another scan was evicted
C16_Witness ==
  \E id \in running_scans :
    /\ ret.op = "get_scan_status" /\ ret.scan_id = id /\ ret.pc = "done"
    /\ ret.returned
    /\ ret.status_dict[1].status \in Terminal
    /\ clock - progress[id].end_time[1] >= 3600
    /\ DOMAIN progress \ running_scans # {}

\* C14: a sweep with max age 0 removes every record in a terminal status,
\* whatever its end_time; after it the registry holds only records in status
\* "scanning".
C14_SweepZeroRemovesAllTerminal ==
  [][CleanupCompletedScans(0) =>
       \A id \in running_scans' : progress'[id].status = "scanning"]_vars

----------------------------------------------------------------------------
(* Properties of duplicate checking within a scan (specification SpecDup) *)

\* the reconciler that ran at the end of this scan failed: the online one,
\* whose iteration over the Firestore lookups raises as soon as one is not empty
DuplicateCheckFailed(id) ==
  LET t == task[id]
  IN  /\ t.pc = "done"
      /\ t.check_duplicates /\ UserGiven(t.user_id)
      /\ IsNone(t.existing_files) /\ IsNone(t.existing_directories)
      /\ \/ DOMAIN GetExistingFilePaths(firestore) # {}
         \/ DOMAIN GetExistingDirectoryPaths(firestore) # {}

\* C21: when duplicate checking itself failed, the scan ends with status
\* "completed", an error entry was appended to its errors, and its
\* duplicate_report is absent or empty.
C21_FailedDuplicateCheckRecorded ==
  \A id \in DOMAIN progress :
    DuplicateCheckFailed(id)
      => /\ progress[id].status = "completed"
         /\ \E i \in DOMAIN progress[id].errors :
              progress[id].errors[i].type = "duplicate_check_error"
         /\ \/ IsNone(progress[id].duplicate_report)
            \/ DOMAIN progress[id].duplicate_report[1] = {}

\* C22: duplicate_report is set only for a scan started with check_duplicates
\* true.  A scan started with check_duplicates false has no duplicate_report
\* in any state, and its scan_results are never filtered: they are empty
\* until the task has finished and then hold every item the process pass
\* collected.
C22_ReportOnlyWhenRequested ==
  \A id \in DOMAIN progress :
    /\ ~IsNone(progress[id].duplicate_report) => task[id].check_duplicates
    /\ ~task[id].check_duplicates
         => /\ IsNone(progress[id].duplicate_report)
            /\ progress[id].scan_results =
                 IF task[id].pc = "done" THEN task[id].results ELSE <<>>

\* a scan started without duplicate checking by a named user, with an existing
\* record equal to a file it found, has finished and kept that file
C22_Witness ==
  \E id \in DOMAIN progress :
    /\ ~task[id].check_duplicates
    /\ UserGiven(task[id].user_id)
    /\ task[id].existing_files = Some(<<Existing(LibA, DupF, Some("unknown"), SizeOnly(1))>>)
    /\ task[id].pc = "done"
    /\ progress[id].status = "completed"
    /\ DupF \in PathsOf(progress[id].scan_results)

----------------------------------------------------------------------------
(* Properties of the record's terminal state (specification Spec) *)

\* C23: in every state a caller can observe (between two steps of the event
\* loop), end_time is unset exactly when status is "scanning": a scanning
\* record has no end_time, and a record in a terminal status has one.
C23_EndTimeIffTerminal ==
  \A id \in DOMAIN progress :
    /\ progress[id].status \in Terminal \cup {"scanning"}
    /\ progress[id].status = "scanning" <=> IsNone(progress[id].end_time)

\* one scan was stopped and has its end_time while another is still scanning
\* without one
C23_Witness ==
  \E id, other \in running_scans :
    /\ ret = Call("stop_scan", id, FALSE, TRUE)
    /\ progress[id].status = "cancelled"
    /\ ~IsNone(progress[id].end_time)
    /\ progress[other].status = "scanning"
    /\ IsNone(progress[other].end_time)

\* the fields of a record that C24 requires to be frozen once it is terminal
FrozenFields(p) ==
  <<p.total_items, p.processed_items, p.current_path, p.end_time, p.errors,
    p.scan_results, p.files_found, p.directories_found, p.duplicate_report>>

\* C24: once a record has reached a terminal status, no later step changes its
\* total_items, processed_items, current_path, end_time, errors, scan_results,
\* files_found, directories_found or duplicate_report.
C24_TerminalIsReadOnly ==
  [][\A id \in DOMAIN progress :
       progress[id].status \in Terminal
         => FrozenFields(progress'[id]) = FrozenFields(progress[id])]_vars

----------------------------------------------------------------------------
(* Liveness of a scan (specification SpecFair) *)

\* C25: under fair scheduling of the background task, on an unchanged tree,
\* every started scan that is not stopped and not evicted eventually has
\* status "completed" with processed_items = total_items.
C25_CleanScanCompletes ==
  \A scan_id \in 1..MaxFairScans :
    (scan_id \in DOMAIN progress)
      ~> \/ scan_id \in stopped
         \/ scan_id \notin running_scans
         \/ /\ progress[scan_id].status = "completed"
            /\ progress[scan_id].processed_items = progress[scan_id].total_items

\* a scan of three entries that was never stopped nor evicted has completed
\* with every entry processed
C25_Witness ==
  \E id \in running_scans :
    /\ id \notin stopped
    /\ task[id].pc = "done"
    /\ progress[id].status = "completed"
    /\ progress[id].total_items = 3
    /\ progress[id].processed_items = 3

----------------------------------------------------------------------------
(* Properties of cancellation (specifications SpecDup, Spec) *)

\* no duplicates were filtered out of the results of this scan
NothingFiltered(id) ==
  \/ IsNone(progress[id].duplicate_report)
  \/ progress[id].duplicate_report[1].duplicatesFound = 0

\* the item is one the duplicate filter of the finished scan removes: the
\* filter ran, and the item's path is that of a reported difference entry or a
\* key of the Firestore lookup for the item's type
RemovedByFilter(id, item) ==
  /\ ~NothingFiltered(id)
  /\ \/ \E k \in DOMAIN progress[id].duplicate_report[1].differences :
          progress[id].duplicate_report[1].differences[k].path = item.path
     \/ /\ item.type = "file"
        /\ item.path \in DOMAIN GetExistingFilePaths(firestore)
     \/ /\ item.type = "directory"
        /\ item.path \in DOMAIN GetExistingDirectoryPaths(firestore)

\* C26 as stated: when the background task of a stopped scan has finished,
\* every item its process pass had collected before it observed the
\* cancellation is in the record's scan_results.
C26_PartialResultsRetained ==
  \A id \in DOMAIN progress :
    (id \in stopped /\ task[id].pc = "done")
      => \A i \in DOMAIN task[id].results :
           \E j \in DOMAIN progress[id].scan_results :
             progress[id].scan_results[j] = task[id].results[i]

\* C26 (amended): cancellation does not roll back results.  When the
\* background task of a stopped scan has finished, every item its process
\* pass had collected before it observed the cancellation is in the record's
\* scan_results, except the items the duplicate filter removed; the record
\* holds nothing else, and when no filter ran it holds the collected items
\* as they were collected.
C26_RetainedUnlessFiltered ==
  \A id \in DOMAIN progress :
    (id \in stopped /\ task[id].pc = "done")
      => /\ \A i \in DOMAIN task[id].results :
              (\E j \in DOMAIN progress[id].scan_results :
                 progress[id].scan_results[j] = task[id].results[i])
                <=> ~RemovedByFilter(id, task[id].results[i])
         /\ \A j \in DOMAIN progress[id].scan_results :
              \E i \in DOMAIN task[id].results :
                task[id].results[i] = progress[id].scan_results[j]
         /\ NothingFiltered(id) => progress[id].scan_results = task[id].results

\* a scan with duplicate checking was stopped after its process pass had
\* collected the directory d and the file f.mp4; the inventory held f.mp4
\* with another size, so the finished record holds d alone
C26_Witness ==
  \E id \in DOMAIN progress :
    /\ id \in stopped
    /\ task[id].pc = "done"
    /\ progress[id].total_items = 3
    /\ Len(task[id].results) = 2
    /\ task[id].results[2].path = DupF
    /\ ~NothingFiltered(id)
    /\ progress[id].scan_results = <<task[id].results[1]>>

\* C27: cancellation is checked before each entry.  Once stop_scan has
\* returned true for a scan, its process pass begins no new entry: the only
\* step that still raises processed_items is the end of the entry that was in
\* flight, which raises it by 1 and leads back to the cancellation check.  So
\* processed_items increases by at most 1 after the cancellation (a root
\* whose check had passed is still written to current_path, which counts
\* nothing, and no new root is begun).  The stop_scan call raises nothing and
\* appends nothing to errors, and neither does the step of the walk that
\* observes the cancellation.
C27_AtMostTheEntryInFlight ==
  [][/\ \A id \in stopped :
          /\ task'[id].pc = "entry" => task[id].pc = "entry"
          /\ task'[id].pc = "root" => task[id].pc = "root"
          /\ progress'[id].processed_items # progress[id].processed_items
               => /\ task[id].pc = "entry"
                  /\ task'[id].pc \in {"notify", "walk"}
                  /\ progress'[id].processed_items = progress[id].processed_items + 1
          /\ WalkCheck(id) => /\ task'[id].pc = "returned"
                              /\ progress'[id].errors = progress[id].errors
     /\ \A id \in KnownIds :
          StopScan(id)
            => /\ ~ret'.raised
               /\ id \in DOMAIN progress
                    => progress'[id].errors = progress[id].errors]_vars

\* stop_scan returned true for a scan of three entries; its walk finished the
\* entry in flight, observed the cancellation and returned with one entry
\* processed and no error recorded
C27_Witness ==
  \E id \in stopped :
    /\ ret = Call("stop_scan", id, FALSE, TRUE)
    /\ task[id].pc = "returned"
    /\ progress[id].total_items = 3
    /\ progress[id].processed_items = 1
    /\ progress[id].errors = <<>>

----------------------------------------------------------------------------
(* Property of the two passes (specification SpecDepth) *)

\* the names of a relative path, split at "/"
RECURSIVE Components(_)
Components(s) ==
  LET seps == {i \in DOMAIN s : s[i] = "/"}
  IN  IF seps = {} THEN <<s>>
      ELSE LET first == CHOOSE i \in seps : \A j \in seps : i <= j
           IN  <<SubSeq(s, 1, first - 1)>>
               \o Components(SubSeq(s, first + 1, Len(s)))

\* every directory and file of the tree below dir, whatever its name or depth
RECURSIVE EntriesBelow(_)
EntriesBelow(dir) ==
  LET l == Listing(dir)
  IN  {[kind |-> "directory", path |-> Join(dir, l.dirs[i])] : i \in DOMAIN l.dirs}
      \cup {[kind |-> "file", path |-> Join(dir, l.files[i])] : i \in DOMAIN l.files}
      \cup UNION {EntriesBelow(Join(dir, l.dirs[i])) : i \in DOMAIN l.dirs}

\* a directory name the scanner keeps: not hidden and not "@eaDir"
KeptName(name) == ~(Len(name) >= 1 /\ name[1] = ".") /\ name # NameEaDir

\* The entries of the library that C28 says are counted: those whose enclosing
\* directories below the root are all kept and are at most max_scan_depth
\* deep, and that are a kept directory or a media-eligible file.
Eligible(top) ==
  {e \in EntriesBelow(top) :
     LET names == Components(SubSeq(e.path, Len(top) + 2, Len(e.path)))
         last == names[Len(names)]
     IN  /\ \A i \in 1..(Len(names) - 1) : KeptName(names[i])
         /\ Len(names) - 1 <= max_scan_depth
         /\ IF e.kind = "directory" THEN KeptName(last) ELSE IsMediaFile(last)}

\* the entries the process pass of a scan has visited
VisitedEntries(id) == {StepsOf(id)[k] : k \in Visited(id)}

\* C28: on an unchanged tree and without cancellation, the result of the
\* count pass is the number of entries the process pass visits, and both are
\* the kept directories and media-eligible files within the depth limit: a
\* directory listed at the limit is counted and not descended into, and
\* nothing below a hidden or "@eaDir" directory is counted.
C28_CountEqualsVisits ==
  \A id \in DOMAIN progress :
    /\ task[id].pc = "counted"
         => task[id].total_items = Cardinality(Eligible(task[id].library_path))
    /\ task[id].pc \notin {"created", "count", "counted"}
         => progress[id].total_items = Cardinality(Eligible(task[id].library_path))
    /\ task[id].pc \in {"returned", "done"}
         => /\ VisitedEntries(id) = Eligible(task[id].library_path)
            /\ progress[id].processed_items = progress[id].total_items

\* the scan of the deep library has finished: 11 directories of the chain and
\* the media file at depth 10 were counted and visited, the directory at depth
\* 12, the files below depth 10 and the file under @eaDir were not
C28_Witness ==
  \E id \in DOMAIN progress :
    /\ task[id].library_path = LibE
    /\ task[id].pc = "done"
    /\ progress[id].total_items = 12
    /\ progress[id].processed_items = 12
    /\ Cardinality(EntriesBelow(LibE)) > 12

----------------------------------------------------------------------------
(* Properties of the reconciler's lookup maps (specification SpecRec) *)

\* the other of the two item types
OtherType(type) == IF type = "file" THEN "directory" ELSE "file"

\* the existing records of a type that have the composite key of item i
KeyMatches(i, type) ==
  LET ex == ExistingOfType(type)
  IN  {k \in DOMAIN ex :
         ExistingKey(ex[k]) = CompositeKey(rec.library_path, rec.scan_results[i].path)}

\* items whose composite key is held by existing records of the other type
\* only
OtherKindOnly ==
  {i \in Reconcilable :
     /\ KeyMatches(i, rec.scan_results[i].type) = {}
     /\ KeyMatches(i, OtherType(rec.scan_results[i].type)) # {}}

\* C29: files and directories are reconciled against separate maps.  An item
\* whose composite key is held only by existing records of the other type is
\* counted as new, not as a duplicate, and gets no difference entry; when
\* that is so for every item, duplicatesFound is 0.
C29_SeparateMaps ==
  rec.pc # "input" =>
    /\ OfflineReport.duplicatesFound <= Cardinality(Reconcilable \ OtherKindOnly)
    /\ OfflineReport.newItems >= Cardinality(OtherKindOnly)
    /\ \A i \in OtherKindOnly : EntriesOf(OfflineReport, i) = <<>>
    /\ OtherKindOnly = Reconcilable =>
         /\ OfflineReport.duplicatesFound = 0
         /\ OfflineReport.newItems = Cardinality(Reconcilable)

\* the file /x was found under /a while the inventory holds /a:/x as a
\* directory, with another size, and no file: the file is new
C29_Witness ==
  /\ rec.pc = "offline"
  /\ rec.library_path = LibA
  /\ rec.scan_results = <<Item("file", PathX)>>
  /\ rec.existing_files = <<>>
  /\ rec.existing_directories = <<Existing(LibA, PathX, Some("movie"), SizeOnly(2))>>
  /\ OtherKindOnly = {1}
  /\ OfflineReport.duplicatesFound = 0
  /\ OfflineReport.newItems = 1
  /\ OfflineReport.differences = <<>>

\* the existing records of item i's type that have the scan's library root
\* and the item's path
SameRootAndPath(i) ==
  LET ex == ExistingOfType(rec.scan_results[i].type)
  IN  {k \in DOMAIN ex :
         /\ ex[k].libraryPath = rec.library_path
         /\ ex[k].path = rec.scan_results[i].path}

\* C30: the composite key is collision-safe.  The key of a discovered item
\* equals the key of an existing record only when the library roots are equal
\* and the paths are equal, so the items counted as duplicates are exactly
\* those for which an existing record of their type has the same library root
\* and the same path.
C30_CollisionSafeKey ==
  rec.pc # "input" =>
    /\ \A i \in Reconcilable :
         \A k \in DOMAIN AllExisting :
           ExistingKey(AllExisting[k])
               = CompositeKey(rec.library_path, rec.scan_results[i].path)
             => /\ AllExisting[k].libraryPath = rec.library_path
                /\ AllExisting[k].path = rec.scan_results[i].path
    /\ OfflineReport.duplicatesFound
         = Cardinality({i \in Reconcilable : SameRootAndPath(i) # {}})

----------------------------------------------------------------------------
(* Property of the result counts (specification SpecDup) *)

\* the items of a type in a scan's stored scan_results
ItemsOfType(id, type) ==
  {i \in DOMAIN progress[id].scan_results : progress[id].scan_results[i].type = type}

\* C31: whenever a scan has status "completed", files_found is the number of
\* items of type "file" in its scan_results and directories_found the number
\* of items of type "directory", whether duplicates were filtered out or not.
C31_CountsMatchResults ==
  \A id \in DOMAIN progress :
    progress[id].status = "completed"
      => /\ progress[id].files_found = Cardinality(ItemsOfType(id, "file"))
         /\ progress[id].directories_found = Cardinality(ItemsOfType(id, "directory"))

\* a completed scan from whose three collected items the duplicate filter
\* removed some, with the counts of what is left
C31_Witness ==
  \E id \in DOMAIN progress :
    /\ progress[id].status = "completed"
    /\ ~IsNone(progress[id].duplicate_report)
    /\ progress[id].duplicate_report[1].duplicatesFound > 0
    /\ Len(task[id].results) = 3
    /\ Len(progress[id].scan_results) < 3
    /\ progress[id].files_found + progress[id].directories_found
         = Len(progress[id].scan_results)
    /\ progress[id].files_found > 0

----------------------------------------------------------------------------
(* Properties of the caller-facing operations (specification SpecCallers) *)

\* the fields of a record other than the two stop_scan assigns
FieldsKeptByStop == DOMAIN NewProgress(LibA, 0) \ {"status", "end_time"}

\* C32: the caller-facing operations respect the single-writer discipline.
\* get_scan_status changes no state of the scanner.  stop_scan changes at
\* most status and end_time of the scan it names: that scan's total_items,
\* processed_items, errors, scan_results, duplicate_report and other fields,
\* every other scan's record, the registry, the callbacks and the background
\* tasks are unchanged.
C32_SingleWriter ==
  [][\A id \in KnownIds :
       /\ GetStatus(id)
            => UNCHANGED <<running_scans, progress, scan_callbacks, task, clock,
                           firestore, tree>>
       /\ StopScan(id)
            => /\ UNCHANGED <<running_scans, scan_callbacks, task, clock, firestore, tree>>
               /\ DOMAIN progress' = DOMAIN progress
               /\ \A other \in DOMAIN progress :
                    IF other = id
                    THEN \A f \in FieldsKeptByStop :
                           progress'[id][f] = progress[id][f]
                    ELSE progress'[other] = progress[other]]_vars

\* stop_scan has cancelled a scan that had processed one of its three entries
\* and collected its item, while another scan was under way
C32_Witness ==
  \E id, other \in running_scans :
    /\ id # other
    /\ ret = Call("stop_scan", id, FALSE, TRUE)
    /\ progress[id].status = "cancelled"
    /\ progress[id].total_items = 3
    /\ progress[id].processed_items = 1
    /\ Len(task[id].results) = 1
    /\ progress[other].status = "scanning"
    /\ progress[other].total_items > 0

\* what the callback of a scan was handed while the walk ran: the
\* notifications that follow an increment (the record is not yet terminal)
PerItemSeen(id) ==
  SelectSeq(task[id].seen, LAMBDA n : n.status \in {"scanning", "cancelled"})

\* what the callback was handed when the background task ended
FinalSeen(id) ==
  SelectSeq(task[id].seen, LAMBDA n : n.status \in {"completed", "error"})

\* C33 as stated: the values a registered callback is handed are 1, 2, ..., N,
\* none skipped or repeated.
C33_ObserverSeesEachValueOnce ==
  \A id \in KnownIds :
    id \in scan_callbacks
      => \A k \in DOMAIN task[id].seen : task[id].seen[k].processed_items = k

\* C33 (amended): while the callback of a scan is registered, each increment of
\* processed_items is followed by exactly one invocation before the next
\* increment, so the invocations made during the walk carry 1, 2, ..., N in
\* order with none skipped or repeated; when the background task ends, one more
\* invocation carries the final value again.  An invocation that raises changes
\* neither the position of the walk nor the status of the scan.  (Between an
\* increment and its invocation the count is one ahead of the invocations.)
C33_OneNotificationPerIncrement ==
  /\ [](\A id \in KnownIds :
         id \in scan_callbacks
           => /\ Len(PerItemSeen(id))
                   = progress[id].processed_items
                       - (IF task[id].pc = "notify" THEN 1 ELSE 0)
              /\ \A k \in DOMAIN PerItemSeen(id) : PerItemSeen(id)[k].processed_items = k
              /\ task[id].seen = PerItemSeen(id) \o FinalSeen(id)
              /\ Len(FinalSeen(id)) = IF task[id].pc = "done" THEN 1 ELSE 0
              /\ \A k \in DOMAIN FinalSeen(id) :
                   FinalSeen(id)[k].processed_items = progress[id].processed_items
              /\ (task[id].pc = "done" /\ id \notin stopped /\ task[id].root_found)
                   => progress[id].processed_items = progress[id].total_items)
  /\ [][\A id \in KnownIds :
          /\ (id \in scan_callbacks
                /\ progress'[id].processed_items # progress[id].processed_items)
               => task[id].pc = "entry" /\ task'[id].pc = "notify"
          /\ (id \in scan_callbacks /\ task[id].pc = "notify" /\ task'[id].pc # "notify")
               => Len(task'[id].seen) = Len(task[id].seen) + 1
          /\ (id \in scan_callbacks /\ Len(task'[id].seen) > Len(task[id].seen)
                /\ task'[id].seen[Len(task'[id].seen)].raised)
               => /\ task'[id].pc = "walk"
                  /\ task'[id].step = task[id].step
                  /\ progress'[id].status = progress[id].status
                  /\ progress'[id].errors = progress[id].errors]_vars

\* a scan of LibA ran to the end with a callback that raised on its second
\* notification: the callback was handed 1, 2, 3 and then 3 again
C33_Witness ==
  \E id \in KnownIds :
    /\ id \in scan_callbacks
    /\ task[id].pc = "done"
    /\ progress[id].status = "completed"
    /\ Len(task[id].seen) = 4
    /\ task[id].seen[2].raised
    /\ task[id].seen[3].processed_items = 3
    /\ task[id].seen[4].processed_items = 3

\* the background task of the scan is inside its count pass or its process pass
InPass(id) == task[id].pc \in {"count", "scan", "walk", "root", "entry", "notify"}

\* C34: the number of scans whose background task is still executing a count
\* or process pass never exceeds max_concurrent_scans.
C34_PassesWithinCeiling ==
  Cardinality({id \in DOMAIN task : InPass(id)}) <= max_concurrent_scans

\* C35: cleanup by id removes the record and its callback whatever the status
\* of the scan; afterwards get_scan_status finds no record and stop_scan
\* returns false, and no step of the background task (nor any other step) puts
\* the record of a scan id that was handed out back into the registry.
C35_CleanupEvicts ==
  [][\A id \in DOMAIN progress :
       /\ CleanupScan(id)
            => id \notin running_scans' /\ id \notin scan_callbacks'
       /\ id \notin running_scans
            => /\ id \notin running_scans'
               /\ GetStatus(id) => ret' = StatusCall(id, "done", FALSE, None)
               /\ StopScan(id) => /\ ret' = Call("stop_scan", id, FALSE, FALSE)
                                  /\ progress' = progress]_vars

\* a scan with a callback was cleaned up while its task was processing an
\* entry; the record is gone, its status was still "scanning", and a poll of
\* its status has found nothing
C35_Witness ==
  \E id \in DOMAIN progress :
    /\ id \notin running_scans
    /\ id \notin scan_callbacks
    /\ progress[id].status = "scanning"
    /\ task[id].pc = "walk"
    /\ progress[id].processed_items = 2
    /\ Len(task[id].seen) = 1
    /\ ret = StatusCall(id, "done", FALSE, None)

\* C36: reconciliation runs only when check_duplicates is true and a user_id
\* was given.  A scan started with check_duplicates true but without a user_id
\* (None or the empty string) has no duplicate_report in any state and its
\* scan_results are never filtered, whatever inventory was supplied; when
\* nobody stopped it, it ends as "completed".
C36_NoUserNoReconciliation ==
  \A id \in DOMAIN progress :
    /\ ~IsNone(progress[id].duplicate_report)
         => task[id].check_duplicates /\ UserGiven(task[id].user_id)
    /\ (task[id].check_duplicates /\ ~UserGiven(task[id].user_id))
         => /\ IsNone(progress[id].duplicate_report)
            /\ progress[id].scan_results =
                 IF task[id].pc = "done" THEN task[id].results ELSE <<>>
            /\ (task[id].pc = "done" /\ id \notin stopped)
                 => progress[id].status = "completed"

\* a scan started with duplicate checking but with the empty string for the
\* user, given an existing record equal to a file it found, has completed and
\* kept that file
C36_Witness ==
  \E id \in DOMAIN progress :
    /\ task[id].check_duplicates
    /\ task[id].user_id = Some(<<>>)
    /\ task[id].existing_files = Some(<<Existing(LibA, DupF, Some("unknown"), SizeOnly(1))>>)
    /\ task[id].pc = "done"
    /\ id \notin stopped
    /\ progress[id].status = "completed"
    /\ IsNone(progress[id].duplicate_report)
    /\ DupF \in PathsOf(progress[id].scan_results)
    /\ Len(progress[id].scan_results) = 3

\* C37: get_scan_results hands out a list exactly when the id is registered
\* and the status of its record is "completed", and the list is the record's
\* scan_results; for an unknown id and for a scan in status "scanning",
\* "cancelled" or "error" it returns None.
C37_ResultsOnlyWhenCompleted ==
  /\ [](\A id \in KnownIds :
         ~IsNone(GetScanResults(id))
           => /\ id \in running_scans
              /\ progress[id].status = "completed"
              /\ GetScanResults(id) = Some(progress[id].scan_results))
  /\ [][\A id \in KnownIds :
          (ret'.op = "get_scan_results" /\ ret'.scan_id = id /\ ret' # ret)
            => (ret'.returned
                  <=> (id \in running_scans /\ progress[id].status = "completed"))]_vars

\* get_scan_results has returned None for a registered scan that was stopped
\* during its walk and is still "cancelled"
C37_Witness ==
  \E id \in running_scans :
    /\ ret = Call("get_scan_results", id, FALSE, FALSE)
    /\ progress[id].status = "cancelled"
    /\ progress[id].processed_items = 1
    /\ task[id].pc = "returned"

----------------------------------------------------------------------------
(* Properties of the task manager (specification SpecTasks) *)

\* C38: once cancel_task has returned true for a task, the status of the task
\* is "cancelled" in every later state: no step of the task's own run writes
\* "completed" or "failed" over it.  cancel_task returns false, and changes
\* nothing, for an id that was never handed out and for a task whose run has
\* finished.
C38_CancelledStays ==
  /\ [](\A id \in DOMAIN tasks :
         async_tasks[id].must_cancel => tasks[id].status = "cancelled")
  /\ [][\A id \in KnownTaskIds :
          (ret'.op = "cancel_task" /\ ret'.scan_id = id /\ ret' # ret)
            => /\ ret'.returned
                    => async_tasks'[id].must_cancel /\ tasks'[id].status = "cancelled"
               /\ (id \notin DOMAIN tasks \/ id \notin running_tasks \/ Done(id))
                    => ~ret'.returned /\ UNCHANGED manager]_vars

\* a task was cancelled after its function had returned in the pool and before
\* its coroutine resumed; the coroutine has ended since, the result was
\* dropped, the status is still "cancelled", and a second cancel_task has
\* returned false
C38_Witness ==
  \E id \in DOMAIN tasks :
    /\ async_tasks[id].must_cancel
    /\ async_tasks[id].future = "returned"
    /\ Done(id)
    /\ id \notin running_tasks
    /\ tasks[id].status = "cancelled"
    /\ IsNone(tasks[id].result)
    /\ ret = Call("cancel_task", id, FALSE, FALSE)

\* C39: every task that reaches a terminal status is eventually removed from
\* running_tasks, so that running_tasks eventually holds only pending or
\* running tasks.
C39_TerminalEventuallyRemoved ==
  /\ \A id \in 1..MaxTasks :
       (id \in DOMAIN tasks /\ tasks[id].status \in TerminalTask) ~> (id \notin running_tasks)
  /\ <>[](\A id \in running_tasks : tasks[id].status \in {"pending", "running"})

====
